---- MODULE Spec2Model ----
(***************************************************************************)
(* Model of the image optimization service: the in-memory TTL store, the   *)
(* client-context registry on top of it, the accept handlers of the        *)
(* optimize / batch-optimize endpoints and the asynchronous optimization   *)
(* arm (temp-file read, worker pool, blob-store upload, callbacks).        *)
(***************************************************************************)
EXTENDS Integers, Sequences, FiniteSets, TLC

(***************************************************************************)
(* Bounds of the model.                                                    *)
(***************************************************************************)
\* the clock runs from 0 to MaxTime while the TTL store is exercised on its own
\* (one tick = one second)
MaxTime == 3
\* the clock runs from 0 to MaxClock while requests are served
MaxClock == 2
\* largest ttl argument a caller of the TTL store passes
MaxTtlArg == 2
\* configured DEFAULT_TTL of the TTL store, in seconds (3600 in production)
DEFAULT_TTL == 2
\* configured CLIENT_CONTEXT_TTL of the context registry (3600 in production)
CLIENT_CONTEXT_TTL == 1
\* number of requests the HTTP surface accepts or rejects in one run
MaxRequests == 1
\* largest number of files in one batch, and of files accepted in one run
MaxBatch == 2
\* largest number of streams subscribed to one id
MaxSubscribers == 1
\* streams opened in all
MaxStreams == 2
\* events published by direct callers of the broker
MaxEvents == 3
\* the grace after a terminal event (5 s), the unit of the broker's clock
SSE_GRACE == 1
\* the life of a Subject (1 hour), in units of the grace
SUBJECT_LIFETIME == 2

(***************************************************************************)
(* State.                                                                  *)
(***************************************************************************)
VARIABLES
  now,        \* wall clock (Date.now()), in seconds
  storage,    \* TimeToLiveDBService.storage : key -> [value, expiresAt]
  ret,        \* the last call made on the TTL store by a direct caller, with its result
  lastSet,    \* per key: the last direct set(k, v, T) not followed by updateTTL/delete/clear
  reqs,       \* per accepted request: the position and locals of its asynchronous arm
  responses,  \* per optimizationId: the body of the 200 response of its accept
  lastResponse, \* the response the HTTP surface produced last (2xx or 4xx)
  puts,       \* per uploadFile id: the s3.upload calls made for it, in order
  notifs,     \* per optimizationId: the NotifyCallbackService.notify calls made, in order
  notifyCall, \* the NotifyCallbackService.notify call in progress: its promises and fetches
  sseEvents,  \* the events sendOptimizationEvent was called with so far
  optimizationEvents, \* ImageOptimizationSseController.optimizationEvents : id -> its Subject
  streams,    \* the SSE connections opened so far: the observers of the Subjects
  timers,     \* the pending setTimeout callbacks of the broker, in arming order
  errorLog,   \* errors caught and logged by the controller or the services
  nextUuid,   \* number of randomUUID() values drawn so far
  workerCall, \* the WorkerPoolService.optimizeImage call in progress: its task and its result
  jobs,       \* JobService.jobs : jobId -> the job of an upload to api/images/upload
  minted,     \* the paths getNewFilePath has returned so far, in order
  uploads,    \* the temp files written to ./uploads for accepted uploads, still on disk
  placeholder, \* the last createBlurPlaceholder call: its options, the metadata and the resize target
  cleanups    \* the calls of JobService.cleanupExpiredJobs: caller -> position, snapshot and counts

vars == <<now, storage, ret, lastSet, reqs, responses, lastResponse, puts, notifs, notifyCall,
          sseEvents, optimizationEvents, streams, timers, errorLog, nextUuid,
          workerCall, jobs, minted, uploads, placeholder, cleanups>>

ttlVars == <<now, storage, ret, lastSet>>
pipeVars == <<reqs, responses, lastResponse, puts, notifs, notifyCall, sseEvents, optimizationEvents, streams, timers,
             errorLog, nextUuid, workerCall, jobs, minted, uploads, placeholder, cleanups>>

(***************************************************************************)
(* TimeToLiveDBService                                                     *)
(***************************************************************************)
\* null, as returned by get for a missing or expired key
Null == [null |-> TRUE]

\* keys and values used by direct callers of the store
StoreKeys == {"k1", "k2"}
StoreValues == {[v |-> "a"], [v |-> "b"]}
\* ttl arguments; 0 stands for an omitted (or zero) ttl, both falsy in `ttl || defaultTTL`
TtlArgs == 0..MaxTtlArg

\* new Date(Date.now() + (ttl || this.defaultTTL) * 1000)
ExpiresAt(t, ttl) == t + (IF ttl = 0 THEN DEFAULT_TTL ELSE ttl)

\* item.expiresAt < new Date()
IsExpired(item, t) == item.expiresAt < t

\* Map.set
MapSet(m, k, e) == [x \in (DOMAIN m) \cup {k} |-> IF x = k THEN e ELSE m[x]]

\* Map.delete
MapDelete(m, k) == [x \in (DOMAIN m) \ {k} |-> m[x]]

\* set(key, value, ttl): the storage afterwards
TtlSet(st, k, v, ttl, t) == MapSet(st, k, [value |-> v, expiresAt |-> ExpiresAt(t, ttl)])

\* get(key) without the expiry check
TtlGetNoExpiry(st, k, t) ==
  IF k \notin DOMAIN st THEN Null ELSE st[k].value

\* get(key): the value returned
TtlGet(st, k, t) ==
  IF k \notin DOMAIN st THEN Null
  ELSE IF IsExpired(st[k], t) THEN Null
  ELSE st[k].value

\* get(key) / has(key) that leave an expired entry in place
TtlPurgeNever(st, k, t) == st

\* get(key) / has(key): the storage afterwards (lazy eviction)
TtlPurge(st, k, t) ==
  IF k \in DOMAIN st /\ IsExpired(st[k], t) THEN MapDelete(st, k) ELSE st

\* has(key): the value returned
TtlHas(st, k, t) == k \in DOMAIN st /\ ~IsExpired(st[k], t)

\* updateTTL(key, ttl): the value returned
TtlUpdateOk(st, k, t) == k \in DOMAIN st /\ ~IsExpired(st[k], t)

\* updateTTL(key, ttl) that does not look at the expiry of the entry
TtlUpdateRevives(st, k, ttl, t) ==
  IF k \notin DOMAIN st THEN st
  ELSE MapSet(st, k, [value |-> st[k].value, expiresAt |-> t + ttl])

\* updateTTL(key, ttl): the storage afterwards
TtlUpdate(st, k, ttl, t) ==
  IF k \notin DOMAIN st THEN st
  ELSE IF IsExpired(st[k], t) THEN MapDelete(st, k)
  ELSE MapSet(st, k, [value |-> st[k].value, expiresAt |-> t + ttl])

\* the keys a sweep deletes when it also takes the entries expiring right now
TtlSweepVictimsInclusive(st, t) == {k \in DOMAIN st : st[k].expiresAt <= t}

\* cleanupExpiredItems(): the keys it deletes
TtlSweepVictims(st, t) == {k \in DOMAIN st : IsExpired(st[k], t)}

\* cleanupExpiredItems(): the storage afterwards
TtlSweep(st, t) == [k \in (DOMAIN st) \ TtlSweepVictims(st, t) |-> st[k]]

\* keys(): only the entries with expiresAt > now
TtlKeys(st, t) == {k \in DOMAIN st : st[k].expiresAt > t}

\* size()
TtlSize(st, t) == Cardinality(TtlKeys(st, t))

EmptyMap == [x \in {} |-> Null]

NoRet == [op |-> "none"]

(***************************************************************************)
(* Direct calls on the TTL store.                                          *)
(***************************************************************************)
Set(k, v, ttl) ==
  /\ storage' = TtlSet(storage, k, v, ttl, now)
  /\ ret' = [op |-> "set", key |-> k, at |-> now]
  /\ lastSet' = MapSet(lastSet, k, [v |-> v, t |-> now, T |-> ttl])
  /\ UNCHANGED <<now, pipeVars>>

Get(k) ==
  /\ ret' = [op |-> "get", key |-> k, at |-> now, val |-> TtlGet(storage, k, now)]
  /\ storage' = TtlPurge(storage, k, now)
  /\ UNCHANGED <<now, lastSet, pipeVars>>

Has(k) ==
  /\ ret' = [op |-> "has", key |-> k, at |-> now, val |-> TtlHas(storage, k, now)]
  /\ storage' = TtlPurge(storage, k, now)
  /\ UNCHANGED <<now, lastSet, pipeVars>>

Delete(k) ==
  /\ ret' = [op |-> "delete", key |-> k, at |-> now, val |-> (k \in DOMAIN storage)]
  /\ storage' = MapDelete(storage, k)
  /\ lastSet' = MapDelete(lastSet, k)
  /\ UNCHANGED <<now, pipeVars>>

UpdateTTL(k, ttl) ==
  /\ ret' = [op |-> "updateTTL", key |-> k, at |-> now,
             val |-> TtlUpdateOk(storage, k, now)]
  /\ storage' = TtlUpdate(storage, k, ttl, now)
  /\ lastSet' = MapDelete(lastSet, k)
  /\ UNCHANGED <<now, pipeVars>>

CleanupExpiredItems ==
  /\ ret' = [op |-> "cleanup", at |-> now,
             val |-> Cardinality(TtlSweepVictims(storage, now))]
  /\ storage' = TtlSweep(storage, now)
  /\ UNCHANGED <<now, lastSet, pipeVars>>

KeysCall ==
  /\ ret' = [op |-> "keys", at |-> now, val |-> TtlKeys(storage, now),
             size |-> TtlSize(storage, now)]
  /\ UNCHANGED <<now, storage, lastSet, pipeVars>>

Clear ==
  /\ ret' = [op |-> "clear", at |-> now]
  /\ storage' = EmptyMap
  /\ lastSet' = EmptyMap
  /\ UNCHANGED <<now, pipeVars>>

Tick ==
  /\ now < MaxTime
  /\ now' = now + 1
  /\ UNCHANGED <<storage, ret, lastSet, pipeVars>>

Init ==
  /\ now = 0
  /\ storage = EmptyMap
  /\ ret = NoRet
  /\ lastSet = EmptyMap
  /\ reqs = EmptyMap
  /\ responses = EmptyMap
  /\ lastResponse = [status |-> 0]
  /\ puts = EmptyMap
  /\ notifs = EmptyMap
  /\ notifyCall = [pc |-> "idle"]
  /\ sseEvents = {}
  /\ optimizationEvents = EmptyMap
  /\ streams = <<>>
  /\ timers = <<>>
  /\ errorLog = {}
  /\ nextUuid = 0
  /\ workerCall = [pc |-> "idle"]
  /\ jobs = EmptyMap
  /\ minted = <<>>
  /\ uploads = {}
  /\ placeholder = [pc |-> "idle"]
  /\ cleanups = [c \in {"hourly", "manual"} |-> [pc |-> "idle"]]

NextTtl ==
  \/ \E k \in StoreKeys, v \in StoreValues, ttl \in TtlArgs : Set(k, v, ttl)
  \/ \E k \in StoreKeys : Get(k)
  \/ \E k \in StoreKeys : Has(k)
  \/ \E k \in StoreKeys : Delete(k)
  \/ \E k \in StoreKeys, ttl \in 1..MaxTtlArg : UpdateTTL(k, ttl)
  \/ CleanupExpiredItems
  \/ KeysCall
  \/ Clear
  \/ Tick

\* the TTL store under arbitrary direct callers and the periodic sweep
SpecTtl == Init /\ [][NextTtl]_vars

(***************************************************************************)
(* ClientContextService (controller-params contexts)                       *)
(***************************************************************************)
\* generateKey(contextType, id) == `${contextType}:${id}`
GenerateKey(contextType, id) == contextType \o ":" \o id

CONTROLLER_PARAMS == "controller-params"

\* { ...a, ...b }
Spread(a, b) == [f \in (DOMAIN a) \cup (DOMAIN b) |-> IF f \in DOMAIN b THEN b[f] ELSE a[f]]

\* getControllerParamsContext(id): the value returned
GetControllerParamsContext(st, id, t) == TtlGet(st, GenerateKey(CONTROLLER_PARAMS, id), t)

\* getControllerParamsContext(id): the storage afterwards
PurgeControllerParamsContext(st, id, t) == TtlPurge(st, GenerateKey(CONTROLLER_PARAMS, id), t)

\* the merge-on-write with createdAt always set to the current time
UpdatedContextRestamped(existing, context, id, t) ==
  LET old == IF existing = Null THEN EmptyMap ELSE existing
      clientId == IF "clientId" \in DOMAIN context /\ context.clientId # ""
                  THEN context.clientId
                  ELSE IF "clientId" \in DOMAIN old /\ old.clientId # "" THEN old.clientId
                  ELSE id
  IN Spread(Spread(old, context),
            [clientId |-> clientId, createdAt |-> t, updatedAt |-> t])

\* the context the merge-on-write of setControllerParamsContext stores
UpdatedContext(existing, context, id, t) ==
  LET old == IF existing = Null THEN EmptyMap ELSE existing
      \* a || b || id: an absent or empty clientId is falsy
      clientId == IF "clientId" \in DOMAIN context /\ context.clientId # ""
                  THEN context.clientId
                  ELSE IF "clientId" \in DOMAIN old /\ old.clientId # "" THEN old.clientId
                  ELSE id
      createdAt == IF "createdAt" \in DOMAIN old THEN old.createdAt ELSE t
  IN Spread(Spread(old, context),
            [clientId |-> clientId, createdAt |-> createdAt, updatedAt |-> t])

\* setControllerParamsContext(id, context) that stores nothing
SetControllerParamsContextLost(st, id, context, t) ==
  PurgeControllerParamsContext(st, id, t)

\* setControllerParamsContext(id, context): the storage afterwards
SetControllerParamsContext(st, id, context, t) ==
  LET existing == GetControllerParamsContext(st, id, t)
      st1 == PurgeControllerParamsContext(st, id, t)
  IN TtlSet(st1, GenerateKey(CONTROLLER_PARAMS, id),
            UpdatedContext(existing, context, id, t), CLIENT_CONTEXT_TTL, t)

IMAGE_OPTIMIZATION == "image-optimization"

\* setImageOptimizationContext(id, context) and setControllerParamsContext(id,
\* context), which differ by the type of their key: the storage afterwards
SetTypedContext(st, contextType, id, context, t) ==
  LET key == GenerateKey(contextType, id)
      existingContext == TtlGet(st, key, t)
  IN TtlSet(TtlPurge(st, key, t), key,
            UpdatedContext(existingContext, context, id, t), CLIENT_CONTEXT_TTL, t)

\* the ids and the fields the direct callers of set* pass
ContextIds == {"id1"}
ContextFields ==
  {EmptyMap, [clientId |-> "c1"], [clientId |-> ""], [width |-> 800],
   [width |-> 400, createdAt |-> 99]}

\* a caller calls set*(id, context) for a context of type contextType
SetContext(contextType, id, context) ==
  /\ storage' = SetTypedContext(storage, contextType, id, context, now)
  /\ UNCHANGED <<now, ret, lastSet, pipeVars>>

NextContext ==
  \/ \E contextType \in {CONTROLLER_PARAMS, IMAGE_OPTIMIZATION}, id \in ContextIds,
         context \in ContextFields : SetContext(contextType, id, context)
  \/ Tick

\* the context store under direct callers of set*
SpecContext == Init /\ [][NextContext]_vars

(***************************************************************************)
(* Path minter, ids, URLs                                                  *)
(***************************************************************************)
\* the n-th value of randomUUID()
Uuid(n) == "u" \o ToString(n)

\* dateTime.toFormat('Z').replace(':00', '') of the local zone
LocalOffset == "-4"

\* getNewFilePath with a uuid drawn once, when the module is loaded
GetNewFilePathOneUuid(format, t, n) ==
  "optimized/" \o ToString(t) \o "_" \o LocalOffset \o "_" \o Uuid(0) \o "." \o format

\* getNewFilePath(format), called at time t when n uuids have been drawn
GetNewFilePath(format, t, n) ==
  "optimized/" \o ToString(t) \o "_" \o LocalOffset \o "_" \o Uuid(n) \o "." \o format

\* configService.get('S3_CUSTOM_DOMAIN')
S3_CUSTOM_DOMAIN == "https://cdn.test/"

\* new URL(path, base) for a relative path and an origin
NewURL(path, base) == base \o path

\* enum ImageFormat
ImageFormat == {"jpeg", "png", "webp", "avif", "gif", "tiff", "svg", "auto"}

\* format.toLowerCase(), on the formats requests carry
ToLowerCase(format) == IF format = "PNG" THEN "png" ELSE format

\* `image/${options.format || 'jpeg'}`
Mimetype(options) == "image/" \o options.format

(***************************************************************************)
(* Request inputs                                                          *)
(***************************************************************************)
\* an uploaded temp file (Express.Multer.File)
File(i) == [originalname |-> "f" \o ToString(i) \o ".png",
            path |-> "uploads/" \o Uuid(100 + i) \o ".png",
            size |-> 10 + i]

Callback1 == [url |-> "http://x/y"]

\* what CallbacksJsonPipe hands to the handler
CallbackLists == {<<>>, <<Callback1>>}

(***************************************************************************)
(* CallbacksJsonPipe.  The text of the `callbacks` body field is a         *)
(* sequence of tokens: the JSON punctuation, blanks, and the member texts  *)
(* "U" (for "url":"http://x/y") and "X" (for "x":1).                        *)
(***************************************************************************)
\* value.trim()
RECURSIVE Trim(_)
Trim(s) ==
  IF s = <<>> THEN s
  ELSE IF Head(s) = " " THEN Trim(Tail(s))
  ELSE IF s[Len(s)] = " " THEN Trim(SubSeq(s, 1, Len(s) - 1))
  ELSE s

StartsWith(s, c) == Len(s) > 0 /\ s[1] = c
EndsWith(s, c) == Len(s) > 0 /\ s[Len(s)] = c

\* the separator '},{'
ObjectSeparator == <<"}", ",", "{">>

\* s.split('},{'): the parts, in order
RECURSIVE Split(_, _)
Split(s, part) ==
  IF s = <<>> THEN <<part>>
  ELSE IF Len(s) >= 3 /\ SubSeq(s, 1, 3) = ObjectSeparator
    THEN <<part>> \o Split(SubSeq(s, 4, Len(s)), <<>>)
  ELSE Split(Tail(s), Append(part, Head(s)))

\* parts.map(...).join(','), from part index (counted from 1) on
RECURSIVE Rejoin(_, _)
Rejoin(parts, index) ==
  IF index > Len(parts) THEN <<>>
  ELSE (IF index = 1 THEN parts[index] \o <<"}">>
        ELSE IF index = Len(parts) THEN <<"{">> \o parts[index]
        ELSE <<"{">> \o parts[index] \o <<"}">>)
       \o (IF index < Len(parts) THEN <<",">> ELSE <<>>)
       \o Rejoin(parts, index + 1)

\* the value a JSON object text {member} denotes
JsonObject(member) == IF member = "U" THEN Callback1 ELSE [x |-> 1]

\* JSON.parse of one element of an array text, which takes the first size tokens:
\* a one-member object or null ("N")
ElementSize(s) ==
  IF Len(s) >= 3 /\ s[1] = "{" /\ s[2] \in {"U", "X"} /\ s[3] = "}" THEN 3
  ELSE IF Len(s) >= 1 /\ s[1] = "N" THEN 1
  ELSE 0

JsonElement(s) == IF s[1] = "N" THEN Null ELSE JsonObject(s[2])

\* JSON.parse of the comma-separated elements of an array text: the elements,
\* or a SyntaxError
RECURSIVE ParseElements(_)
ParseElements(s) ==
  LET size == ElementSize(s) IN
  IF size > 0 THEN
    IF Len(s) = size THEN [ok |-> TRUE, value |-> <<JsonElement(s)>>]
    ELSE IF s[size + 1] = "," THEN
      LET rest == ParseElements(SubSeq(s, size + 2, Len(s))) IN
      IF rest.ok THEN [ok |-> TRUE, value |-> <<JsonElement(s)>> \o rest.value]
      ELSE rest
    ELSE [ok |-> FALSE, value |-> <<>>]
  ELSE [ok |-> FALSE, value |-> <<>>]

\* JSON.parse(jsonString) of a text that starts with '[': the array, or a
\* SyntaxError
JsonParse(s) ==
  IF StartsWith(s, "[") /\ EndsWith(s, "]") /\ Len(s) >= 2 THEN
    IF Len(s) = 2 THEN [ok |-> TRUE, value |-> <<>>]
    ELSE ParseElements(SubSeq(s, 2, Len(s) - 1))
  ELSE [ok |-> FALSE, value |-> <<>>]

\* a pipe that takes every element of the array for a callback
IsCallbackUnchecked(callback) == TRUE

\* typeof callback === 'object' && callback !== null && 'url' in callback
IsCallback(callback) == "null" \notin DOMAIN callback /\ "url" \in DOMAIN callback

\* CallbacksJsonPipe.transform(value): the callbacks, or the BadRequestException
CallbacksJsonPipe(value) ==
  IF value = <<>> THEN [ok |-> TRUE, value |-> <<>>]
  ELSE
    LET trimmed == Trim(value)
        jsonString ==
          IF ~StartsWith(trimmed, "[") /\ StartsWith(trimmed, "{")
            THEN <<"[">> \o trimmed \o <<"]">>
          ELSE IF ~StartsWith(trimmed, "[") \/ ~EndsWith(trimmed, "]")
            THEN <<"[">> \o Rejoin(Split(trimmed, <<>>), 1) \o <<"]">>
          ELSE trimmed
        callbacks == JsonParse(jsonString)
    IN
    IF ~callbacks.ok THEN callbacks
    ELSE IF \E i \in DOMAIN callbacks.value : ~IsCallback(callbacks.value[i])
      THEN [ok |-> FALSE, value |-> <<>>]
    ELSE callbacks

\* texts of the `callbacks` field: absent, an array of one callback, a bare
\* object with and without url, an array of null, an array that is not closed,
\* and text that is no JSON
CallbackTexts ==
  {<<>>,
   <<" ", "[", "{", "U", "}", "]">>,
   <<"{", "U", "}", " ">>,
   <<"{", "X", "}">>,
   <<"[", "N", "]">>,
   <<"[", "{", "U", "}">>,
   <<"U", "}", ",", "{", "U">>}
Widths == {0, 800}
\* Null is the default of an absent height
Heights == {Null, [px |-> 9000]}
Qualities == {80, 101}
RequestFormats == {"PNG", "bmp"}
SingleFiles == {Null, File(0)}
BatchFiles == {[i \in 1..n |-> File(i - 1)] : n \in 0..MaxBatch}

\* what CallbacksJsonPipe makes of each body text, computed once
PipedCallbacks == [value \in CallbackTexts |-> CallbacksJsonPipe(value)]

\* the query parameters of a request: the valid combinations and those that
\* break one rule
Queries ==
  {q \in [width : Widths, height : Heights, quality : Qualities, format : RequestFormats] :
     (IF q.width = 800 THEN 0 ELSE 1) + (IF q.height = Null THEN 0 ELSE 1)
       + (IF q.quality = 80 THEN 0 ELSE 1) + (IF q.format = "PNG" THEN 0 ELSE 1) <= 1}

\* the parameter validation without the check of the format
ValidationErrorAnyFormat(width, height, quality, format) ==
  IF width < 1 \/ width > 8000 THEN "Width must be between 1 and 8000 pixels"
  ELSE IF height # Null /\ (height.px < 1 \/ height.px > 8000)
    THEN "Height must be between 1 and 8000 pixels"
  ELSE IF quality < 1 \/ quality > 100 THEN "Quality must be between 1 and 100"
  ELSE ""

\* the 400 message of the parameter validation of both handlers, or "" when valid
ValidationError(width, height, quality, format) ==
  IF width < 1 \/ width > 8000 THEN "Width must be between 1 and 8000 pixels"
  ELSE IF height # Null /\ (height.px < 1 \/ height.px > 8000)
    THEN "Height must be between 1 and 8000 pixels"
  ELSE IF quality < 1 \/ quality > 100 THEN "Quality must be between 1 and 100"
  ELSE IF ToLowerCase(format) \notin ImageFormat THEN "Format must be one of"
  ELSE ""

\* { width, ...(height !== null && { height }), quality, format: format.toLowerCase() }
Options(width, height, quality, format) ==
  Spread([width |-> width, quality |-> quality, format |-> ToLowerCase(format)],
         IF height # Null THEN [height |-> height.px] ELSE EmptyMap)

\* a BadRequestException, as the HTTP surface renders it (the message, which
\* names the violated rule, is left out)
BadRequest(msg) == [status |-> 400, error |-> "Bad Request"]

\* appends a call record to the calls made for id
Record(calls, id, call) ==
  MapSet(calls, id, Append(IF id \in DOMAIN calls THEN calls[id] ELSE <<>>, call))

\* a handler that holds its response back until the arm it started has settled
EmitResponseHeld(sent, optimizationId, body) == sent

\* `return {...}` of a handler: the responses emitted afterwards
EmitResponse(sent, optimizationId, body) == MapSet(sent, optimizationId, body)

(***************************************************************************)
(* POST image-optimization/optimize                                        *)
(***************************************************************************)
\* the context fields the single handler stores
SingleContextFields(file, callbacks, width, height, quality, format, newFilePath) ==
  [file |-> file, callbacks |-> callbacks, width |-> width, height |-> height,
   quality |-> quality, format |-> format, newFilePath |-> newFilePath]

\* the body the single handler returns
SingleResponse(file, callbacks, newFilePath, optimizationId) ==
  [message |-> "Image optimization started",
   originalSize |-> file.size,
   data |-> newFilePath,
   downloadUrl |-> NewURL(newFilePath, S3_CUSTOM_DOMAIN),
   callbacksScheduled |-> Len(callbacks),
   optimizationId |-> optimizationId]

\* ImageOptimizationController.optimizeImage, up to its return, with the
\* synchronous prefix of ImageOptimizationService.optimizeImage it starts, when
\* randomUUID() returns optimizationId
OptimizeImageWithId(file, callbacks, width, height, quality, format, optimizationId) ==
  IF file = Null THEN
    /\ lastResponse' = BadRequest("No image file provided")
    /\ UNCHANGED <<ttlVars, reqs, responses, puts, notifs, notifyCall, sseEvents, optimizationEvents, streams, timers,
                   errorLog, nextUuid,
                 workerCall, jobs, minted, uploads, placeholder, cleanups>>
  ELSE IF ValidationError(width, height, quality, format) # "" THEN
    /\ lastResponse' = BadRequest(ValidationError(width, height, quality, format))
    /\ UNCHANGED <<ttlVars, reqs, responses, puts, notifs, notifyCall, sseEvents, optimizationEvents, streams, timers,
                   errorLog, nextUuid,
                 workerCall, jobs, minted, uploads, placeholder, cleanups>>
  ELSE
    LET newFilePath == GetNewFilePath(format, now, nextUuid)
        st1 == SetControllerParamsContext(storage, optimizationId,
                 SingleContextFields(file, callbacks, width, height, quality, format,
                                     newFilePath), now)
        controllerParams == GetControllerParamsContext(st1, optimizationId, now)
        body == SingleResponse(file, callbacks, newFilePath, optimizationId)
    IN
    /\ nextUuid' = nextUuid + 2
    /\ storage' = PurgeControllerParamsContext(st1, optimizationId, now)
    /\ IF controllerParams = Null THEN
         /\ reqs' = MapSet(reqs, optimizationId,
                      [kind |-> "single", pc |-> "failed", file |-> file,
                       options |-> Options(width, height, quality, format)])
         /\ errorLog' = errorLog \cup
              {[id |-> optimizationId, msg |-> "Controller parameters not found"]}
       ELSE
         /\ reqs' = MapSet(reqs, optimizationId,
                      [kind |-> "single", pc |-> "read", file |-> file,
                       options |-> Options(width, height, quality, format),
                       newFilePath |-> controllerParams.newFilePath])
         /\ UNCHANGED errorLog
    /\ responses' = EmitResponse(responses, optimizationId, body)
    /\ lastResponse' = [status |-> 200, body |-> body]
    /\ minted' = Append(minted, newFilePath)
    /\ uploads' = uploads \cup {file.path}
    /\ UNCHANGED <<now, ret, lastSet, puts, notifs, notifyCall, sseEvents, optimizationEvents, streams, timers,
                   workerCall, jobs, placeholder, cleanups>>

\* the files of the requests ids
RECURSIVE FileCount(_, _)
FileCount(rs, ids) ==
  IF ids = {} THEN 0
  ELSE LET id == CHOOSE i \in ids : TRUE IN
       (IF rs[id].kind = "batch" THEN Len(rs[id].files) ELSE 1) + FileCount(rs, ids \ {id})

\* the files accepted so far
FilesAccepted == FileCount(reqs, DOMAIN reqs)

\* ImageOptimizationController.optimizeImage with the next value of randomUUID()
OptimizeImageHandler(file, callbacks, width, height, quality, format) ==
  \* requests arrive until MaxRequests of them, or MaxBatch files, have been accepted
  /\ Cardinality(DOMAIN reqs) < MaxRequests
  /\ FilesAccepted + 1 <= MaxBatch
  /\ OptimizeImageWithId(file, callbacks, width, height, quality, format,
                         Uuid(nextUuid + 1))

\* POST image-optimization/optimize: the parameter pipes, then the handler
PostOptimize(file, value, width, height, quality, format) ==
  /\ Cardinality(DOMAIN reqs) < MaxRequests
  /\ LET callbacks == PipedCallbacks[value] IN
     IF ~callbacks.ok THEN
       /\ lastResponse' = BadRequest("Invalid callbacks format")
       /\ UNCHANGED <<ttlVars, reqs, responses, puts, notifs, notifyCall, sseEvents, optimizationEvents, streams, timers,
                      errorLog, nextUuid,
                 workerCall, jobs, minted, uploads, placeholder, cleanups>>
     ELSE OptimizeImageHandler(file, callbacks.value, width, height, quality, format)

\* `await sharp(file.path).toBuffer()` of the single arm settles
SingleReadDone(id, ok) ==
  /\ id \in DOMAIN reqs /\ reqs[id].kind = "single" /\ reqs[id].pc = "read"
  /\ IF ok THEN
       \* the task is handed to workerPoolService.optimizeImage
       /\ reqs' = [reqs EXCEPT ![id].pc = "worker"]
       /\ UNCHANGED errorLog
     ELSE
       /\ reqs' = [reqs EXCEPT ![id].pc = "failed"]
       /\ errorLog' = errorLog \cup {[id |-> id, msg |-> "Failed to optimize image"]}
  /\ UNCHANGED <<ttlVars, responses, lastResponse, puts, notifs, notifyCall, sseEvents,
                 optimizationEvents, streams, timers, nextUuid,
                 workerCall, jobs, minted, uploads, placeholder, cleanups>>

\* uploadFile that uses the id it is given as the object key
UploadFilePutsKeyedById(calls, st, uploadId, mimetype, t) ==
  LET context == GetControllerParamsContext(st, uploadId, t) IN
  IF context = Null THEN calls
  ELSE Record(calls, uploadId, [Key |-> uploadId, ContentType |-> mimetype])

\* ImageUploadService.uploadFile up to its await: the s3.upload calls of id afterwards
UploadFilePuts(calls, st, uploadId, mimetype, t) ==
  LET context == GetControllerParamsContext(st, uploadId, t) IN
  IF context = Null THEN calls
  ELSE Record(calls, uploadId, [Key |-> context.newFilePath, ContentType |-> mimetype])

\* `await this.workerPoolService.optimizeImage(task)` of the single arm settles;
\* on success uploadFile is called and runs up to its await
SingleWorkerDone(id, success) ==
  /\ id \in DOMAIN reqs /\ reqs[id].kind = "single" /\ reqs[id].pc = "worker"
  /\ IF success THEN
       LET found == GetControllerParamsContext(storage, id, now) # Null IN
       /\ storage' = PurgeControllerParamsContext(storage, id, now)
       /\ puts' = UploadFilePuts(puts, storage, id, Mimetype(reqs[id].options), now)
       /\ IF found THEN
            /\ reqs' = [reqs EXCEPT ![id] =
                          Spread(@, [pc |-> "upload", workerSuccess |-> TRUE,
                                     contextAtUpload |-> TRUE])]
            /\ UNCHANGED errorLog
          ELSE
            \* uploadFile logs and returns; the arm goes on as after an upload
            /\ reqs' = [reqs EXCEPT ![id] =
                          Spread(@, [pc |-> "done", workerSuccess |-> TRUE,
                                     contextAtUpload |-> FALSE, outcome |-> "success"])]
            /\ errorLog' = errorLog \cup {[id |-> id, msg |-> "Context not found"]}
     ELSE
       /\ reqs' = [reqs EXCEPT ![id] =
                     Spread(@, [pc |-> "failed", workerSuccess |-> FALSE])]
       /\ errorLog' = errorLog \cup {[id |-> id, msg |-> "Failed to optimize image"]}
       /\ UNCHANGED <<storage, puts>>
  /\ UNCHANGED <<now, ret, lastSet, responses, lastResponse, notifs, notifyCall, sseEvents,
                 optimizationEvents, streams, timers, nextUuid,
                 workerCall, jobs, minted, uploads, placeholder, cleanups>>

\* the s3 upload of the single arm settles; a rejection is caught and printed
\* inside uploadFile, so the arm logs success and returns in both cases
SingleUploadDone(id, ok) ==
  /\ id \in DOMAIN reqs /\ reqs[id].kind = "single" /\ reqs[id].pc = "upload"
  /\ reqs' = [reqs EXCEPT ![id] =
                Spread(@, [pc |-> "done", stored |-> ok, outcome |-> "success"])]
  /\ errorLog' = IF ok THEN errorLog
                 ELSE errorLog \cup {[id |-> id, msg |-> "s3 upload failed"]}
  /\ UNCHANGED <<ttlVars, responses, lastResponse, puts, notifs, notifyCall, sseEvents,
                 optimizationEvents, streams, timers, nextUuid,
                 workerCall, jobs, minted, uploads, placeholder, cleanups>>

(***************************************************************************)
(* POST image-optimization/batch-optimize                                  *)
(***************************************************************************)
\* the context fields the batch handler stores
BatchContextFields(files, callbacks, width, height, quality, format, newFilePaths) ==
  [files |-> files, callbacks |-> callbacks, width |-> width, height |-> height,
   quality |-> quality, format |-> format, newFilePaths |-> newFilePaths]

\* the body the batch handler returns
BatchResponse(files, callbacks, newFilePaths, optimizationId) ==
  [message |-> "Batch image optimization started",
   count |-> Len(files),
   callbacksScheduled |-> Len(callbacks),
   optimizationId |-> optimizationId,
   results |-> [i \in 1..Len(files) |->
                  [originalName |-> files[i].originalname,
                   originalSize |-> files[i].size,
                   data |-> newFilePaths[i],
                   downloadUrl |-> NewURL(newFilePaths[i], S3_CUSTOM_DOMAIN)]]]

\* ImageOptimizationController.batchOptimizeImages, up to its return, with the
\* synchronous prefix of ImageOptimizationService.batchOptimizeImages it starts
BatchOptimizeHandler(files, callbacks, width, height, quality, format) ==
  \* requests arrive until MaxRequests of them, or MaxBatch files, have been accepted
  /\ Cardinality(DOMAIN reqs) < MaxRequests
  /\ FilesAccepted + Len(files) <= MaxBatch
  /\ IF Len(files) = 0 THEN
      /\ lastResponse' = BadRequest("No image files provided")
      /\ UNCHANGED <<ttlVars, reqs, responses, puts, notifs, notifyCall, sseEvents, optimizationEvents, streams, timers,
                     errorLog, nextUuid,
                 workerCall, jobs, minted, uploads, placeholder, cleanups>>
    ELSE IF ValidationError(width, height, quality, format) # "" THEN
      /\ lastResponse' = BadRequest(ValidationError(width, height, quality, format))
      /\ UNCHANGED <<ttlVars, reqs, responses, puts, notifs, notifyCall, sseEvents, optimizationEvents, streams, timers,
                     errorLog, nextUuid,
                 workerCall, jobs, minted, uploads, placeholder, cleanups>>
    ELSE
      LET optimizationId == Uuid(nextUuid)
          newFilePaths == [i \in 1..Len(files) |-> GetNewFilePath(format, now, nextUuid + i)]
          st1 == SetControllerParamsContext(storage, optimizationId,
                   BatchContextFields(files, callbacks, width, height, quality, format,
                                      newFilePaths), now)
          controllerParams == GetControllerParamsContext(st1, optimizationId, now)
          body == BatchResponse(files, callbacks, newFilePaths, optimizationId)
      IN
      /\ nextUuid' = nextUuid + 1 + Len(files)
      /\ storage' = PurgeControllerParamsContext(st1, optimizationId, now)
      /\ IF controllerParams = Null THEN
           /\ reqs' = MapSet(reqs, optimizationId,
                        [kind |-> "batch", pc |-> "failed", files |-> files,
                         options |-> Options(width, height, quality, format)])
           /\ errorLog' = errorLog \cup
                {[id |-> optimizationId, msg |-> "Controller parameters not found"]}
         ELSE
           /\ reqs' = MapSet(reqs, optimizationId,
                        [kind |-> "batch", pc |-> "read", files |-> files,
                         options |-> Options(width, height, quality, format),
                         controllerParams |-> controllerParams])
           /\ UNCHANGED errorLog
      /\ responses' = EmitResponse(responses, optimizationId, body)
      /\ lastResponse' = [status |-> 200, body |-> body]
      /\ minted' = minted \o newFilePaths
      /\ uploads' = uploads \cup {files[i].path : i \in DOMAIN files}
      /\ UNCHANGED <<now, ret, lastSet, puts, notifs, notifyCall, sseEvents, optimizationEvents, streams, timers,
                     workerCall, jobs, placeholder, cleanups>>

\* POST image-optimization/batch-optimize: the parameter pipes, then the handler
PostBatchOptimize(files, value, width, height, quality, format) ==
  /\ Cardinality(DOMAIN reqs) < MaxRequests
  /\ LET callbacks == PipedCallbacks[value] IN
     IF ~callbacks.ok THEN
       /\ lastResponse' = BadRequest("Invalid callbacks format")
       /\ UNCHANGED <<ttlVars, reqs, responses, puts, notifs, notifyCall, sseEvents, optimizationEvents, streams, timers,
                      errorLog, nextUuid,
                 workerCall, jobs, minted, uploads, placeholder, cleanups>>
     ELSE BatchOptimizeHandler(files, callbacks.value, width, height, quality, format)

\* the per-file outcomes of one awaited Promise.all of a batch of n files
Outcomes(n) == [1..n -> BOOLEAN]

\* tasks.length of the batch id (0 for a single request)
TaskCount(id) == IF reqs[id].kind = "batch" THEN Len(reqs[id].files) ELSE 0

\* `await Promise.all(files.map(... sharp(file.path).toBuffer() ...))` settles:
\* it rejects as soon as one read rejects, and the whole arm throws
BatchReadDone(id, ok) ==
  /\ id \in DOMAIN reqs /\ reqs[id].kind = "batch" /\ reqs[id].pc = "read"
  /\ ok \in Outcomes(Len(reqs[id].files))
  /\ IF \A i \in DOMAIN ok : ok[i] THEN
       \* the tasks are handed to workerPoolService.optimizeImages
       /\ reqs' = [reqs EXCEPT ![id] = Spread(@, [pc |-> "worker", readOk |-> ok])]
       /\ UNCHANGED errorLog
     ELSE
       /\ reqs' = [reqs EXCEPT ![id] = Spread(@, [pc |-> "failed", readOk |-> ok])]
       /\ errorLog' = errorLog \cup {[id |-> id, msg |-> "Failed to optimize batch images"]}
  /\ UNCHANGED <<ttlVars, responses, lastResponse, puts, notifs, notifyCall, sseEvents,
                 optimizationEvents, streams, timers, nextUuid,
                 workerCall, jobs, minted, uploads, placeholder, cleanups>>

\* the per-file context stored under the id of the batch itself
IndexIdOfBatch(optimizationId, index) == optimizationId

\* `${optimizationId}_${index}`, index counted from 0
IndexId(optimizationId, index) == optimizationId \o "_" \o ToString(index)

\* the upload fan-out without the check of workerResult.success
RECURSIVE StartUploadsUnchecked(_, _, _, _, _, _, _)
StartUploadsUnchecked(st, calls, id, rq, success, i, t) ==
  IF i > Len(rq.files) THEN [storage |-> st, puts |-> calls]
  ELSE
    LET uploadId == IndexId(id, i - 1)
        st1 == SetControllerParamsContext(st, uploadId,
                 Spread(rq.controllerParams,
                        [newFilePath |-> rq.controllerParams.newFilePaths[i]]), t)
        calls1 == UploadFilePuts(calls, st1, uploadId, Mimetype(rq.options), t)
    IN StartUploadsUnchecked(PurgeControllerParamsContext(st1, uploadId, t), calls1,
                             id, rq, success, i + 1, t)

\* the synchronous prefixes of the upload fan-out, for the files i..n in order:
\* for a successful worker result the per-index context is stored and uploadFile
\* runs up to its await; yields the storage and the s3.upload calls afterwards
RECURSIVE StartUploads(_, _, _, _, _, _, _)
StartUploads(st, calls, id, rq, success, i, t) ==
  IF i > Len(rq.files) THEN [storage |-> st, puts |-> calls]
  ELSE IF ~success[i] THEN StartUploads(st, calls, id, rq, success, i + 1, t)
  ELSE
    LET uploadId == IndexId(id, i - 1)
        st1 == SetControllerParamsContext(st, uploadId,
                 Spread(rq.controllerParams,
                        [newFilePath |-> rq.controllerParams.newFilePaths[i]]), t)
        calls1 == UploadFilePuts(calls, st1, uploadId, Mimetype(rq.options), t)
    IN StartUploads(PurgeControllerParamsContext(st1, uploadId, t), calls1,
                    id, rq, success, i + 1, t)

\* `await this.workerPoolService.optimizeImages(tasks)` settles with one result
\* per task; the upload fan-out starts
BatchWorkersDone(id, success) ==
  /\ id \in DOMAIN reqs /\ reqs[id].kind = "batch" /\ reqs[id].pc = "worker"
  /\ success \in Outcomes(Len(reqs[id].files))
  /\ LET after == StartUploads(storage, puts, id, reqs[id], success, 1, now) IN
     /\ storage' = after.storage
     /\ puts' = after.puts
  /\ reqs' = [reqs EXCEPT ![id] = Spread(@, [pc |-> "upload", workerSuccess |-> success])]
  /\ UNCHANGED <<now, ret, lastSet, responses, lastResponse, notifs, notifyCall, sseEvents, optimizationEvents, streams, timers,
                 errorLog, nextUuid,
                 workerCall, jobs, minted, uploads, placeholder, cleanups>>

\* the entry of results[] for file i, given its worker result; an s3 rejection
\* was caught inside uploadFile and does not show
BatchResult(rq, i) ==
  IF ~rq.workerSuccess[i]
  THEN [originalName |-> rq.files[i].originalname,
        error |-> "worker error",
        success |-> FALSE]
  ELSE [originalName |-> rq.files[i].originalname,
        originalSize |-> rq.files[i].size,
        optimizedSize |-> rq.files[i].size - 1,
        newFilePath |-> rq.controllerParams.newFilePaths[i],
        success |-> TRUE]

\* the payload of the batch completion callback
BatchPayload(id, rq, results) ==
  [optimizationId |-> id,
   type |-> "batch",
   results |-> results,
   totalFiles |-> Len(rq.files),
   successfulFiles |-> Cardinality({i \in DOMAIN results : results[i].success}),
   failedFiles |-> Cardinality({i \in DOMAIN results : ~results[i].success})]

\* all uploads of the fan-out have settled (stored[i] tells whether s3 accepted
\* file i); the callbacks, if any, are notified
BatchUploadsDone(id, stored) ==
  /\ id \in DOMAIN reqs /\ reqs[id].kind = "batch" /\ reqs[id].pc = "upload"
  /\ stored \in Outcomes(Len(reqs[id].files))
  /\ \A i \in DOMAIN stored : stored[i] => reqs[id].workerSuccess[i]
  /\ LET rq == reqs[id]
         results == [i \in 1..Len(rq.files) |-> BatchResult(rq, i)]
         callbacks == rq.controllerParams.callbacks
     IN
     /\ reqs' = [reqs EXCEPT ![id] =
                   Spread(@, [pc |-> "done", stored |-> stored, results |-> results,
                              outcome |-> "success"])]
     /\ notifs' = IF Len(callbacks) > 0
                  THEN Record(notifs, id, [callbacks |-> callbacks,
                                           data |-> BatchPayload(id, rq, results)])
                  ELSE notifs
     /\ errorLog' = errorLog \cup
          {[id |-> IndexId(id, i - 1), msg |-> "s3 upload failed"] :
             i \in {j \in DOMAIN stored : rq.workerSuccess[j] /\ ~stored[j]}}
  /\ UNCHANGED <<ttlVars, responses, lastResponse, puts, notifyCall, sseEvents, optimizationEvents,
                 streams, timers, nextUuid,
                 workerCall, jobs, minted, uploads, placeholder, cleanups>>

(***************************************************************************)
(* ImageOptimizationSseController (the SSE broker)                         *)
(*                                                                         *)
(* A Subject is an object: it is named by the number of the stream whose   *)
(* subscribe call created it.  A stream is the Observable one subscribe    *)
(* call returned, with the Subject it observes, the events delivered to it *)
(* and whether it was completed.  A timer is a pending setTimeout callback *)
(* with the values its closure captured; the clock counts in units of the  *)
(* grace of a terminal event.                                              *)
(***************************************************************************)
\* ids a client subscribes with: those it was given, and a blank one
SubscribeIds == (DOMAIN responses) \cup {" "}

\* !id || id.trim() === ''
IsBlank(id) == id \in {"", " "}

\* the streams that observe subject and are not completed
Observers(strs, subject) ==
  {i \in DOMAIN strs : strs[i].subject = subject /\ ~strs[i].completed}

\* subject.next(event): every observer of the subject receives the event
SubjectNext(strs, subject, event) ==
  [i \in DOMAIN strs |->
     IF i \in Observers(strs, subject)
     THEN [strs[i] EXCEPT !.events = Append(@, event)] ELSE strs[i]]

\* subject.complete(): every observer of the subject is completed
SubjectComplete(strs, subject) ==
  [i \in DOMAIN strs |->
     IF i \in Observers(strs, subject)
     THEN [strs[i] EXCEPT !.completed = TRUE] ELSE strs[i]]

\* sendOptimizationEvent(event) at time t: the streams and timers afterwards
SendOptimizationEvent(broker, strs, tms, event, t) ==
  IF event.id \in DOMAIN broker THEN
    [streams |-> SubjectNext(strs, broker[event.id], event),
     timers |-> IF event.type \in {"complete", "error"}
                THEN Append(tms, [kind |-> "grace", id |-> event.id,
                                  subject |-> broker[event.id], due |-> t + SSE_GRACE])
                ELSE tms]
  ELSE [streams |-> strs, timers |-> tms]

\* the events published for id so far, oldest first
RECURSIVE InOrder(_)
InOrder(events) ==
  IF events = {} THEN <<>>
  ELSE LET first == CHOOSE e \in events : \A f \in events : e.data <= f.data
       IN  <<first>> \o InOrder(events \ {first})
Replay(id) == InOrder({e \in sseEvents : e.id = id})

SubscribeReplaying(id) ==
  IF IsBlank(id) THEN
    /\ lastResponse' = BadRequest("Invalid optimization ID")
    /\ UNCHANGED <<ttlVars, reqs, responses, puts, notifs, notifyCall, sseEvents, optimizationEvents,
                   streams, timers, errorLog, nextUuid,
                 workerCall, jobs, minted, uploads, placeholder, cleanups>>
  ELSE
    LET created == id \notin DOMAIN optimizationEvents
        subject == IF created THEN Len(streams) + 1 ELSE optimizationEvents[id]
    IN
    /\ Cardinality({i \in DOMAIN streams : streams[i].id = id /\ ~streams[i].completed})
         < MaxSubscribers
    /\ Len(streams) < MaxStreams
    /\ optimizationEvents' = MapSet(optimizationEvents, id, subject)
    /\ timers' = IF created
                 THEN Append(timers, [kind |-> "lifetime", id |-> id, subject |-> 0,
                                      due |-> now + SUBJECT_LIFETIME])
                 ELSE timers
    /\ streams' = Append(streams, [id |-> id, subject |-> subject, events |-> Replay(id),
                                   completed |-> FALSE])
    /\ UNCHANGED <<ttlVars, reqs, responses, lastResponse, puts, notifs, notifyCall, sseEvents,
                   errorLog, nextUuid,
                 workerCall, jobs, minted, uploads, placeholder, cleanups>>

\* GET image-optimization-sse/subscribe/:id
Subscribe(id) ==
  IF IsBlank(id) THEN
    /\ lastResponse' = BadRequest("Invalid optimization ID")
    /\ UNCHANGED <<ttlVars, reqs, responses, puts, notifs, notifyCall, sseEvents, optimizationEvents,
                   streams, timers, errorLog, nextUuid,
                 workerCall, jobs, minted, uploads, placeholder, cleanups>>
  ELSE
    LET created == id \notin DOMAIN optimizationEvents
        subject == IF created THEN Len(streams) + 1 ELSE optimizationEvents[id]
    IN
    /\ Cardinality({i \in DOMAIN streams : streams[i].id = id /\ ~streams[i].completed})
         < MaxSubscribers
    /\ Len(streams) < MaxStreams
    /\ optimizationEvents' = MapSet(optimizationEvents, id, subject)
    /\ timers' = IF created
                 THEN Append(timers, [kind |-> "lifetime", id |-> id, subject |-> 0,
                                      due |-> now + SUBJECT_LIFETIME])
                 ELSE timers
    /\ streams' = Append(streams, [id |-> id, subject |-> subject, events |-> <<>>,
                                   completed |-> FALSE])
    /\ UNCHANGED <<ttlVars, reqs, responses, lastResponse, puts, notifs, notifyCall, sseEvents,
                   errorLog, nextUuid,
                 workerCall, jobs, minted, uploads, placeholder, cleanups>>

\* GET image-optimization-sse/test-event/:id
TestEvent(id) ==
  LET event == [id |-> id, type |-> "progress"]
      after == SendOptimizationEvent(optimizationEvents, streams, timers, event, now)
  IN
  /\ event \notin sseEvents
  /\ sseEvents' = sseEvents \cup {event}
  /\ streams' = after.streams
  /\ timers' = after.timers
  /\ UNCHANGED <<ttlVars, reqs, responses, lastResponse, puts, notifs, notifyCall, optimizationEvents,
                 errorLog, nextUuid,
                 workerCall, jobs, minted, uploads, placeholder, cleanups>>

\* some caller publishes its next event: sendOptimizationEvent({id, type, data})
Publish(id, type) ==
  LET event == [id |-> id, type |-> type, data |-> Cardinality(sseEvents) + 1]
      after == SendOptimizationEvent(optimizationEvents, streams, timers, event, now)
  IN
  /\ Cardinality(sseEvents) < MaxEvents
  /\ sseEvents' = sseEvents \cup {event}
  /\ streams' = after.streams
  /\ timers' = after.timers
  /\ UNCHANGED <<ttlVars, reqs, responses, lastResponse, puts, notifs, notifyCall, optimizationEvents,
                 errorLog, nextUuid,
                 workerCall, jobs, minted, uploads, placeholder, cleanups>>

\* the timers that have expired, and the one the event loop runs next: the one
\* that expires first, the first armed of those
Expired(tms, t) == {n \in DOMAIN tms : tms[n].due <= t}
NextTimer(tms, t) ==
  CHOOSE n \in Expired(tms, t) :
    \A m \in Expired(tms, t) : tms[n].due < tms[m].due \/ (tms[n].due = tms[m].due /\ n <= m)

\* tms without its n-th timer
RemoveTimer(tms, n) == SubSeq(tms, 1, n - 1) \o SubSeq(tms, n + 1, Len(tms))

\* a setTimeout callback of the broker runs
TimerFires ==
  /\ Expired(timers, now) # {}
  /\ LET n == NextTimer(timers, now)
         timer == timers[n]
     IN
     /\ timers' = RemoveTimer(timers, n)
     /\ IF timer.kind = "grace" THEN
          \* subject.complete(); this.optimizationEvents.delete(event.id)
          /\ streams' = SubjectComplete(streams, timer.subject)
          /\ optimizationEvents' = MapDelete(optimizationEvents, timer.id)
        ELSE IF timer.id \in DOMAIN optimizationEvents THEN
          \* the subject now stored under id is completed and deleted
          /\ streams' = SubjectComplete(streams, optimizationEvents[timer.id])
          /\ optimizationEvents' = MapDelete(optimizationEvents, timer.id)
        ELSE UNCHANGED <<streams, optimizationEvents>>
  /\ UNCHANGED <<ttlVars, reqs, responses, lastResponse, puts, notifs, notifyCall, sseEvents,
                 errorLog, nextUuid,
                 workerCall, jobs, minted, uploads, placeholder, cleanups>>

(***************************************************************************)
(* The service: both endpoints, the asynchronous arms, the clock and the   *)
(* periodic sweep of the TTL store.                                        *)
(***************************************************************************)
\* a second passes; time is counted from the arrival of the first accepted
\* request (Date.now() is read by the handlers and the TTL store only)
ClockTick ==
  /\ reqs # EmptyMap
  /\ now < MaxClock
  /\ now' = now + 1
  /\ UNCHANGED <<storage, ret, lastSet, pipeVars>>

\* setInterval(() => this.cleanupExpiredItems(), cleanupIntervalTime) fires
SweepJob ==
  /\ TtlSweepVictims(storage, now) # {}
  /\ storage' = TtlSweep(storage, now)
  /\ UNCHANGED <<now, ret, lastSet, pipeVars>>

Next ==
  \/ \E file \in SingleFiles, value \in CallbackTexts, q \in Queries :
       PostOptimize(file, value, q.width, q.height, q.quality, q.format)
  \/ \E files \in BatchFiles, value \in CallbackTexts, q \in Queries :
       PostBatchOptimize(files, value, q.width, q.height, q.quality, q.format)
  \/ \E id \in DOMAIN reqs, ok \in BOOLEAN : SingleReadDone(id, ok)
  \/ \E id \in DOMAIN reqs, success \in BOOLEAN : SingleWorkerDone(id, success)
  \/ \E id \in DOMAIN reqs, ok \in BOOLEAN : SingleUploadDone(id, ok)
  \/ \E id \in DOMAIN reqs : \E ok \in Outcomes(TaskCount(id)) : BatchReadDone(id, ok)
  \/ \E id \in DOMAIN reqs : \E success \in Outcomes(TaskCount(id)) :
       BatchWorkersDone(id, success)
  \/ \E id \in DOMAIN reqs : \E stored \in Outcomes(TaskCount(id)) :
       BatchUploadsDone(id, stored)
  \/ SweepJob
  \/ ClockTick

Spec == Init /\ [][Next]_vars

\* the uuids drawn by MaxRequests + 1 single-image requests
MaxDraws == 2 * (MaxRequests + 1)

\* POST image-optimization/optimize for which randomUUID() returns the id of an
\* earlier single-image request whose arm has ended and whose context is still
\* stored
OptimizeImageDuplicateId(id, callbacks) ==
  /\ id \in DOMAIN reqs /\ reqs[id].kind = "single" /\ reqs[id].pc \in {"done", "failed"}
  /\ GetControllerParamsContext(storage, id, now) # Null
  /\ nextUuid < MaxDraws
  /\ OptimizeImageWithId(File(0), callbacks, 800, Null, 80, "PNG", id)

\* the service with a minter that may repeat an id
NextDuplicateId ==
  \/ Next
  \/ \E id \in DOMAIN reqs, callbacks \in CallbackLists :
       OptimizeImageDuplicateId(id, callbacks)

SpecDuplicateId == Init /\ [][NextDuplicateId]_vars

\* the service together with the clients of the SSE endpoints
NextSse ==
  \/ Next
  \/ \E id \in SubscribeIds : Subscribe(id)
  \/ \E id \in DOMAIN responses : TestEvent(id)
  \/ TimerFires

SpecSse == Init /\ [][NextSse]_vars

\* ids known to the callers of the broker
BrokerIds == {"u1", "u2"}
EventTypes == {"progress", "complete", "error"}

\* the SSE broker under arbitrary subscribers and publishers
NextBroker ==
  \/ \E id \in BrokerIds \cup {" "} : Subscribe(id)
  \/ \E id \in BrokerIds, type \in EventTypes : Publish(id, type)
  \/ TimerFires
  \/ Tick

SpecBroker == Init /\ [][NextBroker]_vars

\* the SSE broker under the subscribers and the publishers of one id
NextOneId ==
  \/ Subscribe("u1")
  \/ \E type \in EventTypes : Publish("u1", type)
  \/ TimerFires
  \/ Tick

SpecOneId == Init /\ [][NextOneId]_vars

(***************************************************************************)
(* NotifyCallbackService                                                   *)
(*                                                                         *)
(* The service keeps no state between its calls, so one call is followed   *)
(* to its end. The text of a url is the sequence of its parts: a scheme,   *)
(* ":" and the rest when it is absolute.  A callbacks argument is either   *)
(* undefined or an array whose items are what JSON.parse produced: objects *)
(* with or without the fields url, method and headers, or null.            *)
(***************************************************************************)
\* largest number of callbacks passed to one notify call
MaxCallbacks == 3

\* schemes the texts of the model use
Schemes == {"http", "https"}

\* URL.canParse(url): the text is an absolute URL
CanParse(url) == Len(url) >= 3 /\ url[1] \in Schemes /\ url[2] = ":"

\* the text URL.canParse makes of an undefined url
Undefined == <<"undefined">>

HookUrl == <<"https", ":", "//client.example/hook">>

RelativeUrl == <<"/", "hook">>

\* the items of a callbacks array
NotifyCallbackValues ==
  { [url |-> HookUrl],
    [url |-> HookUrl, method |-> "GET"],
    [url |-> HookUrl, headers |-> [Authorization |-> "token"]],
    [url |-> RelativeUrl],
    [method |-> "PUT"],
    Null }

\* the callbacks arguments of notify
NotifyCallbacks ==
  {[kind |-> "undefined"]} \cup
  {[kind |-> "array", items |-> items] :
     items \in UNION {[1..n -> NotifyCallbackValues] : n \in 0..MaxCallbacks}}

\* the data arguments of notify
NotifyData == {[optimizationId |-> "uuid1", success |-> TRUE]}

IsNull(callback) == "null" \in DOMAIN callback

\* const { url, headers = {}, method = 'POST' } = callback
Url(callback) == IF "url" \in DOMAIN callback THEN callback.url ELSE Undefined

Headers(callback) == IF "headers" \in DOMAIN callback THEN callback.headers ELSE EmptyMap

Method(callback) == IF "method" \in DOMAIN callback THEN callback.method ELSE "POST"

\* the arguments of fetch(url, { method, headers, body })
FetchRequest(callback, data) ==
  [url |-> Url(callback),
   method |-> Method(callback),
   headers |-> Spread([ContentType |-> "application/json"], Headers(callback)),
   body |-> IF Method(callback) # "GET" THEN [json |-> data] ELSE Null]

\* a callback whose fetch is called although URL.canParse was not asked
IssuesFetchUnvalidated(callback) == ~IsNull(callback)

\* the callback's arrow function reaches its fetch: destructuring did not throw
\* and URL.canParse(url) holds
IssuesFetch(callback) == ~IsNull(callback) /\ CanParse(Url(callback))

\* the promise of a callback's arrow function when map has returned: destructuring
\* null throws and so does the catch block (callback.url), the promise is
\* rejected; an invalid URL returns at once; otherwise the fetch is awaited
StartCallback(callback) ==
  IF IsNull(callback) THEN "rejected"
  ELSE IF IssuesFetch(callback) THEN "pending"
  ELSE "fulfilled"

\* the fetch calls callbacks.map makes, in order
StartFetches(items, data) ==
  LET issued == SelectSeq([i \in 1..Len(items) |-> i], LAMBDA i : IssuesFetch(items[i]))
  IN [k \in 1..Len(issued) |->
        [index |-> issued[k], request |-> FetchRequest(items[issued[k]], data),
         response |-> "pending"]]

\* the promise settles as soon as one of its inputs has
PromiseRace(promises) == promises = <<>> \/ \E i \in DOMAIN promises : promises[i] # "pending"

\* Promise.allSettled(callbackPromises) has settled
PromiseAllSettled(promises) == \A i \in DOMAIN promises : promises[i] # "pending"

\* what a fetch ends with: response.ok, another status, or a rejection
FetchResponses == {"ok", "status", "rejected"}

\* notify(callbacks, data), up to its await: the arrow function of every callback
\* runs up to its own await, so every fetch is called here.  With callbacks
\* undefined, callbacks?.map is undefined and Promise.allSettled(undefined)
\* rejects inside the try
Notify(callbacks, data) ==
  /\ notifyCall.pc = "idle"
  /\ notifyCall' =
       IF callbacks.kind = "array"
       THEN [pc |-> "waiting", callbacks |-> callbacks,
             promises |-> [i \in 1..Len(callbacks.items) |-> StartCallback(callbacks.items[i])],
             fetches |-> StartFetches(callbacks.items, data),
             thrown |-> FALSE,
             logged |-> {[msg |-> "Invalid URL", url |-> Url(callbacks.items[i])] :
                           i \in {j \in 1..Len(callbacks.items) :
                                    /\ ~IsNull(callbacks.items[j])
                                    /\ ~IssuesFetch(callbacks.items[j])}}]
       ELSE [pc |-> "waiting", callbacks |-> callbacks, promises |-> <<>>, fetches |-> <<>>,
             thrown |-> TRUE, logged |-> {}]
  /\ UNCHANGED <<ttlVars, reqs, responses, lastResponse, puts, notifs, sseEvents,
                 optimizationEvents, streams, timers, errorLog, nextUuid,
                 workerCall, jobs, minted, uploads, placeholder, cleanups>>

\* the fetch of one callback settles: the arrow function logs what is not ok and
\* its promise is fulfilled
FetchSettles(k, response) ==
  /\ notifyCall.pc = "waiting"
  /\ k \in DOMAIN notifyCall.fetches
  /\ notifyCall.fetches[k].response = "pending"
  /\ LET fetch == notifyCall.fetches[k] IN
     notifyCall' =
       [notifyCall EXCEPT
          !.fetches[k].response = response,
          !.promises[fetch.index] = "fulfilled",
          !.logged = @ \cup
             (CASE response = "ok" -> {}
                [] response = "status" ->
                     {[msg |-> "Callback failed with status", url |-> fetch.request.url]}
                [] response = "rejected" ->
                     {[msg |-> "Error notifying callback", url |-> fetch.request.url]})]
  /\ UNCHANGED <<ttlVars, reqs, responses, lastResponse, puts, notifs, sseEvents,
                 optimizationEvents, streams, timers, errorLog, nextUuid,
                 workerCall, jobs, minted, uploads, placeholder, cleanups>>

\* notify returns: the await of Promise.allSettled is over; what was thrown inside
\* the try has been caught and logged
NotifyReturns ==
  /\ notifyCall.pc = "waiting"
  /\ PromiseAllSettled(notifyCall.promises)
  /\ notifyCall' =
       [notifyCall EXCEPT
          !.pc = "returned",
          !.logged = IF notifyCall.thrown
                     THEN @ \cup {[msg |-> "Error importing node-fetch or processing callbacks"]}
                     ELSE @]
  /\ UNCHANGED <<ttlVars, reqs, responses, lastResponse, puts, notifs, sseEvents,
                 optimizationEvents, streams, timers, errorLog, nextUuid,
                 workerCall, jobs, minted, uploads, placeholder, cleanups>>

NextNotify ==
  \/ \E callbacks \in NotifyCallbacks, data \in NotifyData : Notify(callbacks, data)
  \/ \E k \in 1..MaxCallbacks, response \in FetchResponses : FetchSettles(k, response)
  \/ NotifyReturns

SpecNotify == Init /\ [][NextNotify]_vars

(***************************************************************************)
(* WorkerPoolService and the optimization worker                           *)
(***************************************************************************)
\* largest length of an encoded buffer
MaxSize == 2

\* the candidates of format auto, in the order the worker tries them
AutoFormats == <<"jpeg", "webp", "avif", "png">>

\* what `toBuffer()` gives for one image and each encoder: the encoded buffer,
\* or Null when the encoder throws
Encodings == [{AutoFormats[i] : i \in DOMAIN AutoFormats} ->
                {Null} \cup {[length |-> n] : n \in 1..MaxSize}]

\* the formats of the tasks submitted
TaskFormats == {"auto", "png", "svg"}

\* the OptimizationTask made for an uploaded file
Task(file, format) ==
  [imageBuffer |-> [length |-> file.size],
   options |-> [format |-> format],
   originalName |-> file.originalname]

Tasks == {Task(File(i), format) : i \in 0..1, format \in TaskFormats}

\* the encoder the switch on options.format puts on the pipeline, for a format
\* other than auto
PipelineFormat(format) ==
  IF format \in {"jpeg", "png", "webp", "avif", "gif", "tiff"} THEN format ELSE "jpeg"

\* the four encodings of the auto branch awaited in a row: one that throws
\* leaves the block for `catch (autoError)`
AllEncode(encodings) ==
  \A i \in DOMAIN AutoFormats : encodings[AutoFormats[i]] # Null

\* Infinity, the initial minSize
Infinity == MaxSize + 1

\* the loop over testFormats, from candidate i on
RECURSIVE TestFormats(_, _, _, _)
TestFormats(encodings, i, bestFormat, minSize) ==
  IF i > Len(AutoFormats) THEN bestFormat
  ELSE LET testBuffer == encodings[AutoFormats[i]] IN
       IF testBuffer # Null /\ testBuffer.length < minSize
       THEN TestFormats(encodings, i + 1, AutoFormats[i], testBuffer.length)
       ELSE TestFormats(encodings, i + 1, bestFormat, minSize)

\* the encoder the auto branch puts on the pipeline
AutoFormat(encodings) ==
  IF AllEncode(encodings) THEN TestFormats(encodings, 1, "jpeg", Infinity) ELSE "jpeg"

\* the encoder on the pipeline when the final toBuffer() is awaited
FinalFormat(task, encodings) ==
  IF task.options.format = "auto" THEN AutoFormat(encodings)
  ELSE PipelineFormat(task.options.format)

\* the result made by a catch block for a task that failed
FailureResult(task, message) ==
  [optimizedBuffer |-> [length |-> 0],
   originalSize |-> task.imageBuffer.length,
   optimizedSize |-> 0,
   originalName |-> task.originalName,
   success |-> FALSE,
   error |-> message]

\* optimizeImageWorker(task), on an image with these encodings
OptimizeImageWorker(task, encodings) ==
  LET format == FinalFormat(task, encodings)
      optimizedBuffer == encodings[format]
  IN IF optimizedBuffer = Null THEN FailureResult(task, "encoding failed")
     ELSE [optimizedBuffer |-> [format |-> format, length |-> optimizedBuffer.length],
           originalSize |-> task.imageBuffer.length,
           optimizedSize |-> optimizedBuffer.length,
           originalName |-> task.originalName,
           success |-> TRUE]

\* WorkerPoolService.optimizeImage without its catch block
PoolOptimizeImageNoCatch(task, run) == run

\* WorkerPoolService.optimizeImage once the promise of piscina.run(task) has
\* settled as run: how its own promise settles
PoolOptimizeImage(task, run) ==
  IF run.kind = "fulfilled" THEN run
  ELSE [kind |-> "fulfilled", value |-> FailureResult(task, run.reason)]

\* a caller awaits workerPoolService.optimizeImage(task); one call is followed
\* to its end
Submit(task, encodings) ==
  /\ workerCall.pc = "idle"
  /\ workerCall' = [pc |-> "running", task |-> task, encodings |-> encodings]
  /\ UNCHANGED <<ttlVars, reqs, responses, lastResponse, puts, notifs, notifyCall, sseEvents,
                 optimizationEvents, streams, timers, errorLog, nextUuid, jobs, minted, uploads, placeholder, cleanups>>

\* piscina.run(task) has settled as run
RunSettles(run) ==
  /\ workerCall.pc = "running"
  /\ workerCall' = Spread(workerCall,
                          [pc |-> "settled", run |-> run,
                           outcome |-> PoolOptimizeImage(workerCall.task, run)])
  /\ UNCHANGED <<ttlVars, reqs, responses, lastResponse, puts, notifs, notifyCall, sseEvents,
                 optimizationEvents, streams, timers, errorLog, nextUuid, jobs, minted, uploads, placeholder, cleanups>>

\* the worker function returns its result
WorkerReturns ==
  /\ workerCall.pc = "running"
  /\ RunSettles([kind |-> "fulfilled",
                 value |-> OptimizeImageWorker(workerCall.task, workerCall.encodings)])

\* the worker thread dies, or the task cannot be run: piscina.run(task) rejects
WorkerCrashes ==
  /\ workerCall.pc = "running"
  /\ RunSettles([kind |-> "rejected", reason |-> "worker terminated"])

\* WorkerPoolService.onModuleDestroy while the task runs: piscina.destroy()
\* stops the worker threads and rejects the promises of their tasks
OnModuleDestroy ==
  /\ workerCall.pc = "running"
  /\ RunSettles([kind |-> "rejected", reason |-> "Terminating worker thread"])

NextWorker ==
  \/ \E task \in Tasks, encodings \in Encodings : Submit(task, encodings)
  \/ WorkerReturns
  \/ WorkerCrashes
  \/ OnModuleDestroy

\* one task through the worker pool
SpecWorker == Init /\ [][NextWorker]_vars

(***************************************************************************)
(* getNewFilePath called by arbitrary callers                              *)
(***************************************************************************)
\* largest number of direct calls of getNewFilePath
MaxMints == 3

\* a caller calls getNewFilePath(format)
MintPath(format) ==
  /\ Len(minted) < MaxMints
  /\ minted' = Append(minted, GetNewFilePath(format, now, nextUuid))
  /\ nextUuid' = nextUuid + 1
  /\ UNCHANGED <<ttlVars, reqs, responses, lastResponse, puts, notifs, notifyCall, sseEvents,
                 optimizationEvents, streams, timers, errorLog, workerCall, jobs, uploads, placeholder, cleanups>>

NextMinter ==
  \/ \E format \in {"png", "webp"} : MintPath(format)
  \/ \E file \in SingleFiles, q \in Queries :
       PostOptimize(file, <<>>, q.width, q.height, q.quality, q.format)
  \/ \E files \in BatchFiles, q \in Queries :
       PostBatchOptimize(files, <<>>, q.width, q.height, q.quality, q.format)
  \/ Tick

\* the path minter under direct callers and the two accepts
SpecMinter == Init /\ [][NextMinter]_vars

(***************************************************************************)
(* QueueController, JobService and the hourly cleanup                      *)
(***************************************************************************)
\* largest number of jobs created
MaxJobs == 1

\* the temp file of an upload to api/images/upload
JobFile == File(2)

\* JobService.getExpiredJobs at time t
ExpiredJobs(js, t) == {jobId \in DOMAIN js : js[jobId].expiresAt < t}

\* POST api/images/upload: JobService.createJob for the uploaded file, with a
\* ttl in hours
UploadImage(file, ttl) ==
  /\ Cardinality(DOMAIN jobs) < MaxJobs
  /\ LET jobId == Uuid(nextUuid) IN
     /\ jobs' = MapSet(jobs, jobId,
                  [id |-> jobId, filePath |-> file.path, status |-> "pending",
                   createdAt |-> now, ttl |-> ttl, expiresAt |-> now + ttl])
     /\ lastResponse' = [status |-> 201,
                         body |-> [jobId |-> jobId, status |-> "pending",
                                   expiresAt |-> now + ttl]]
  /\ nextUuid' = nextUuid + 1
  /\ uploads' = uploads \cup {file.path}
  /\ UNCHANGED <<ttlVars, reqs, responses, puts, notifs, notifyCall, sseEvents,
                 optimizationEvents, streams, timers, errorLog, workerCall, minted, placeholder, cleanups>>

\* POST api/images/upload when queueService.addImageOptimizationJob rejects (the
\* queue cannot be reached): createJob has stored the job; the catch block
\* unlinks the temp file and answers 400
UploadImageFails(file, ttl) ==
  /\ Cardinality(DOMAIN jobs) < MaxJobs
  /\ LET jobId == Uuid(nextUuid) IN
     jobs' = MapSet(jobs, jobId,
               [id |-> jobId, filePath |-> file.path, status |-> "pending",
                createdAt |-> now, ttl |-> ttl, expiresAt |-> now + ttl])
  /\ nextUuid' = nextUuid + 1
  /\ uploads' = uploads \ {file.path}
  /\ lastResponse' = BadRequest("Failed to process image upload")
  /\ UNCHANGED <<ttlVars, reqs, responses, puts, notifs, notifyCall, sseEvents,
                 optimizationEvents, streams, timers, errorLog, workerCall, minted, placeholder,
                 cleanups>>

\* the callers of JobService.cleanupExpiredJobs: the 'cleanup-expired' queue job
\* (handleCleanupExpired) and POST api/images/admin/cleanup (manualCleanup)
Cleaners == {"hourly", "manual"}

\* the jobs of a set in the order the Map holds them (the order of creation)
RECURSIVE InMapOrder(_)
InMapOrder(ids) ==
  IF ids = {} THEN <<>>
  ELSE LET first == CHOOSE id \in ids :
                      \A n \in 0..nextUuid : Uuid(n) \in ids => \E m \in 0..n : Uuid(m) = id
       IN  <<first>> \o InMapOrder(ids \ {first})

\* the steps of a cleanup leave everything but jobs, uploads and cleanups alone
CleanupFrame ==
  UNCHANGED <<ttlVars, reqs, responses, lastResponse, puts, notifs, notifyCall, sseEvents,
              optimizationEvents, streams, timers, errorLog, nextUuid, workerCall, minted,
              placeholder>>

\* deletedCount++ and the next job of the loop. removed counts the records the
\* call's own this.jobs.delete took out of the map
NextJob(call, removed) ==
  [pc |-> "looping", expiredJobs |-> Tail(call.expiredJobs),
   deletedCount |-> call.deletedCount + 1, removed |-> call.removed + removed]

\* the loop of cleanupExpiredJobs runs up to its next fs.unlink, the first await
\* that lets other callers in: a job that is no longer stored is passed over by
\* deleteJob and counted; past the last job the call returns deletedCount
RECURSIVE RunLoop(_, _)
RunLoop(call, js) ==
  IF call.expiredJobs = <<>> THEN [call EXCEPT !.pc = "returned"]
  ELSE IF Head(call.expiredJobs) \in DOMAIN js
    THEN Spread(call, [pc |-> "unlinking", job |-> js[Head(call.expiredJobs)]])
  ELSE RunLoop(NextJob(call, 0), js)

\* cleanupExpiredJobs is called: const expiredJobs = await this.getExpiredJobs(),
\* then the loop
CleanupExpiredJobs(c) ==
  /\ cleanups[c].pc \in {"idle", "returned"}
  /\ cleanups' = [cleanups EXCEPT ![c] =
                    RunLoop([pc |-> "looping",
                             expiredJobs |-> InMapOrder(ExpiredJobs(jobs, now)),
                             deletedCount |-> 0, removed |-> 0], jobs)]
  /\ UNCHANGED <<jobs, uploads>>
  /\ CleanupFrame

\* fs.unlink(job.filePath) of deleteJob settles (a failure is only warned
\* about), then this.jobs.delete(jobId), and the loop goes on
UnlinkSettles(c, unlinked) ==
  /\ cleanups[c].pc = "unlinking"
  /\ LET jobId == Head(cleanups[c].expiredJobs) IN
     /\ uploads' = IF unlinked THEN uploads \ {cleanups[c].job.filePath} ELSE uploads
     /\ jobs' = MapDelete(jobs, jobId)
     /\ cleanups' = [cleanups EXCEPT ![c] =
                       RunLoop(NextJob(@, IF jobId \in DOMAIN jobs THEN 1 ELSE 0), jobs')]
  /\ CleanupFrame

CleanupStep(c) ==
  \/ CleanupExpiredJobs(c)
  \/ \E unlinked \in BOOLEAN : UnlinkSettles(c, unlinked)

\* the 'cleanup-expired' job queued every hour:
\* ImageOptimizationProcessor.handleCleanupExpired
HandleCleanupExpired == CleanupStep("hourly")

\* POST api/images/admin/cleanup
ManualCleanup == CleanupStep("manual")

NextCleanup ==
  \/ \E file \in SingleFiles, q \in Queries :
       PostOptimize(file, <<>>, q.width, q.height, q.quality, q.format)
  \/ \E files \in BatchFiles, q \in Queries :
       PostBatchOptimize(files, <<>>, q.width, q.height, q.quality, q.format)
  \/ \E ttl \in 1..MaxTtlArg : UploadImage(JobFile, ttl)
  \/ \E ttl \in 1..MaxTtlArg : UploadImageFails(JobFile, ttl)
  \/ SweepJob
  \/ HandleCleanupExpired
  \/ ManualCleanup
  \/ Tick

\* the accepts, the job upload and the two periodic cleanups
SpecCleanup == Init /\ [][NextCleanup]_vars

(***************************************************************************)
(* The blur placeholder (ImageOptimizationService.createBlurPlaceholder).  *)
(* Numbers are pixels; an option the caller left out is a field the        *)
(* options record does not have; sharp's metadata without dimensions is    *)
(* the empty record.                                                       *)
(***************************************************************************)
Max(a, b) == IF a > b THEN a ELSE b
Min(a, b) == IF a < b THEN a ELSE b

\* Math.round(n / d) for d > 0: the nearest integer, a half rounded up
Round(n, d) == (2 * n + d) \div (2 * d)

\* metadata.width / metadata.height as a fraction, 1 when either is missing or 0
AspectRatio(metadata) ==
  IF /\ "width" \in DOMAIN metadata /\ metadata.width # 0
     /\ "height" \in DOMAIN metadata /\ metadata.height # 0
  THEN [num |-> metadata.width, den |-> metadata.height]
  ELSE [num |-> 1, den |-> 1]

\* the options destructured with their defaults: width = 40, mobileOptimized = true
OptionWidth(options) == IF "width" \in DOMAIN options THEN options.width ELSE 40
OptionMobile(options) ==
  IF "mobileOptimized" \in DOMAIN options THEN options.mobileOptimized ELSE TRUE
\* !height
NoHeight(options) == "height" \notin DOMAIN options \/ options.height = 0

MobileWidthNoFloor(width) == Min(width, 40)

\* Math.max(20, Math.min(width, 40))
MobileWidth(width) == Max(20, Min(width, 40))

\* finalWidth and finalHeight as handed to sharp's resize
ResizeTarget(options, metadata) ==
  LET width == OptionWidth(options)
      aspectRatio == AspectRatio(metadata)
      finalWidth == IF OptionMobile(options) /\ NoHeight(options)
                    THEN MobileWidth(width) ELSE width
  IN  [finalWidth  |-> finalWidth,
       finalHeight |-> IF NoHeight(options)
                       THEN Round(finalWidth * aspectRatio.den, aspectRatio.num)
                       ELSE options.height]

OptionalField(name, values) == {EmptyMap} \cup {[f \in {name} |-> v] : v \in values}

BlurWidths == {-5, 0, 1, 10, 19, 20, 21, 39, 40, 41, 256, 8000}

BlurOptions ==
  {Spread(Spread(w, h), m) : w \in OptionalField("width", BlurWidths),
                             h \in OptionalField("height", {0, 30}),
                             m \in OptionalField("mobileOptimized", BOOLEAN)}

Metadatas ==
  {EmptyMap, [width |-> 1, height |-> 1], [width |-> 4, height |-> 3],
   [width |-> 3, height |-> 4], [width |-> 1000, height |-> 3]}

CreateBlurPlaceholder(options, metadata) ==
  /\ placeholder' = [pc |-> "resized", options |-> options, metadata |-> metadata,
                     target |-> ResizeTarget(options, metadata)]
  /\ UNCHANGED <<ttlVars, reqs, responses, lastResponse, puts, notifs, notifyCall, sseEvents,
                 optimizationEvents, streams, timers, errorLog, nextUuid, workerCall, jobs,
                 minted, uploads, cleanups>>

NextPlaceholder ==
  \E options \in BlurOptions, metadata \in Metadatas : CreateBlurPlaceholder(options, metadata)

\* calls of createBlurPlaceholder with every combination of options
SpecPlaceholder == Init /\ [][NextPlaceholder]_vars

(***************************************************************************)
(* C1                                                                      *)
(***************************************************************************)
\* the ttl a set(k, v, T) call takes effect with
EffectiveTtl(T) == IF T = 0 THEN DEFAULT_TTL ELSE T

\* a get(k) has just returned and k's last set is still undisturbed
GetAfterSet == ret.op = "get" /\ ret.key \in DOMAIN lastSet

SingleIds == {id \in DOMAIN reqs : reqs[id].kind = "single"}
BatchIds == {id \in DOMAIN reqs : reqs[id].kind = "batch"}
Knows(rq, field) == field \in DOMAIN rq
PutsOf(uploadId) == IF uploadId \in DOMAIN puts THEN puts[uploadId] ELSE <<>>
NotifsOf(id) == IF id \in DOMAIN notifs THEN notifs[id] ELSE <<>>
StreamsOf(id) == {s \in DOMAIN streams : streams[s].id = id}
Finished(rq) == rq.pc \in {"done", "failed"}
WorkerSucceeded(rq) == Knows(rq, "workerSuccess") /\ rq.workerSuccess
WorkerFailed(rq) == Knows(rq, "workerSuccess") /\ ~rq.workerSuccess

(***************************************************************************)
(* C2                                                                      *)
(***************************************************************************)
\* C2: in the step in which the single-image handler produces its response, a
\* controller-params context is stored (and unexpired) under the response's
\* optimizationId, the response's data is that context's newFilePath and its
\* downloadUrl is the configured base followed by that newFilePath.
C2_ResponseMatchesContext ==
  [][\A id \in (DOMAIN responses') \ (DOMAIN responses) :
       reqs'[id].kind = "single" =>
         LET context == GetControllerParamsContext(storage', id, now') IN
           /\ context # Null
           /\ responses'[id].optimizationId = id
           /\ responses'[id].data = context.newFilePath
           /\ responses'[id].downloadUrl = S3_CUSTOM_DOMAIN \o context.newFilePath]_vars

\* a single-image response has just been produced and its context is stored
C2_Witness ==
  \E id \in SingleIds :
    /\ lastResponse = [status |-> 200, body |-> responses[id]]
    /\ reqs[id].pc = "read"
    /\ GetControllerParamsContext(storage, id, now) # Null
    /\ responses[id].data = GetControllerParamsContext(storage, id, now).newFilePath

(***************************************************************************)
(* C3                                                                      *)
(***************************************************************************)
\* what a put of a single-image request must look like
SinglePutWellFormed(id) ==
  /\ PutsOf(id)[1].Key = responses[id].data
  /\ PutsOf(id)[1].ContentType = "image/" \o reqs[id].options.format

C4_BatchPutPerIndex ==
  \A id \in BatchIds :
    \A i \in 1..Len(reqs[id].files) :
      LET made == PutsOf(id \o "_" \o ToString(i - 1)) IN
      IF Knows(reqs[id], "workerSuccess") /\ reqs[id].workerSuccess[i]
      THEN /\ Len(made) = 1
           /\ made[1].Key = responses[id].results[i].data
           /\ made[1].ContentType = "image/" \o reqs[id].options.format
      ELSE Len(made) = 0

\* a batch of two files of which the first was optimized and put, the second not
C4_Witness ==
  \E id \in BatchIds :
    /\ Len(reqs[id].files) = 2
    /\ Knows(reqs[id], "workerSuccess")
    /\ reqs[id].workerSuccess = <<TRUE, FALSE>>
    /\ Len(PutsOf(id \o "_0")) = 1
    /\ Len(PutsOf(id \o "_1")) = 0

(***************************************************************************)
(* C5                                                                      *)
(***************************************************************************)
TerminalTypes == {"complete", "error"}

\* C5: in the step in which the asynchronous arm of an accepted request ends,
\* every stream that was subscribed to its optimizationId before that step has
\* received a terminal event (complete or error) for that id.
C5_SubscriberSeesTerminal ==
  [][\A id \in DOMAIN reqs :
       (~Finished(reqs[id]) /\ Finished(reqs'[id])) =>
         \A s \in DOMAIN streams :
           streams[s].id = id =>
             \E n \in DOMAIN streams'[s].events :
               streams'[s].events[n].type \in TerminalTypes]_vars

(***************************************************************************)
(* C6                                                                      *)
(***************************************************************************)
\* C6: a single-image request with a non-empty callbacks list whose optimization
\* and upload both succeeded has had exactly one notify call, with that list and
\* a payload carrying its optimizationId, status completed and the downloadUrl.
C6_SingleCompletionNotified ==
  \A id \in SingleIds :
    (/\ reqs[id].pc = "done"
     /\ Knows(reqs[id], "stored")
     /\ reqs[id].stored
     /\ responses[id].callbacksScheduled > 0)
      => /\ Len(NotifsOf(id)) = 1
         /\ NotifsOf(id)[1].data.optimizationId = id
         /\ NotifsOf(id)[1].data.status = "completed"
         /\ NotifsOf(id)[1].data.downloadUrl = responses[id].downloadUrl

(***************************************************************************)
(* C7                                                                      *)
(***************************************************************************)
\* C7: a single-image request whose worker result has success = false has an SSE
\* error event published for its id and, if it carries callbacks, exactly one
\* notify call with status error, while its 200 response stands.
C7_WorkerFailureReported ==
  \A id \in SingleIds :
    (reqs[id].pc = "failed" /\ WorkerFailed(reqs[id]))
      => /\ id \in DOMAIN responses
         /\ [id |-> id, type |-> "error"] \in sseEvents
         /\ responses[id].callbacksScheduled > 0
              => /\ Len(NotifsOf(id)) = 1
                 /\ NotifsOf(id)[1].data.status = "error"

(***************************************************************************)
(* C8                                                                      *)
(***************************************************************************)
\* C8: when the blob-store put of a request failed (a single image, or file i of
\* a batch), an SSE error event was published for the request and the file is
\* not reported as optimized successfully.
C8_UploadFailureReported ==
  /\ \A id \in SingleIds :
       (reqs[id].pc = "done" /\ Knows(reqs[id], "stored") /\ ~reqs[id].stored)
         => /\ reqs[id].outcome # "success"
            /\ [id |-> id, type |-> "error"] \in sseEvents
  /\ \A id \in BatchIds :
       reqs[id].pc = "done" =>
         \A i \in 1..Len(reqs[id].files) :
           (reqs[id].workerSuccess[i] /\ ~reqs[id].stored[i])
             => /\ ~reqs[id].results[i].success
                /\ [id |-> id, type |-> "error"] \in sseEvents

(***************************************************************************)
(* C9                                                                      *)
(***************************************************************************)
\* C9: once the arm of a batch of N files with callbacks has ended, exactly one
\* notify call was made, whose results has length N with results[i] describing
\* input file i and whose totalFiles = N = successfulFiles + failedFiles.
C9_OneBatchCallback ==
  \A id \in BatchIds :
    (Finished(reqs[id]) /\ responses[id].callbacksScheduled > 0)
      => /\ Len(NotifsOf(id)) = 1
         /\ LET data == NotifsOf(id)[1].data
                N == Len(reqs[id].files)
            IN /\ Len(data.results) = N
               /\ \A i \in 1..N :
                    data.results[i].originalName = reqs[id].files[i].originalname
               /\ data.totalFiles = N
               /\ data.successfulFiles + data.failedFiles = N

(***************************************************************************)
(* C10                                                                     *)
(***************************************************************************)
\* C10: once the arm of a batch has ended, every file of the batch whose own temp
\* file could be read was handed to the worker pool and is reported with its own
\* outcome, whatever happened to the other files.
C10_SiblingsUnaffected ==
  \A id \in BatchIds :
    (Finished(reqs[id]) /\ Knows(reqs[id], "readOk"))
      => \A i \in 1..Len(reqs[id].files) :
           reqs[id].readOk[i]
             => /\ Knows(reqs[id], "workerSuccess")
                /\ Knows(reqs[id], "results")
                /\ reqs[id].results[i].originalName = reqs[id].files[i].originalname

(***************************************************************************)
(* C11, C12                                                                *)
(***************************************************************************)
\* the task (or tasks) of the request has been handed to the worker pool
Submitted(rq) == rq.pc = "worker" \/ Knows(rq, "workerSuccess")

\* C11: in the step in which the response of an accepted request is emitted, the
\* request's context has been persisted and its task has been submitted to the
\* worker pool.
C11_ResponseAfterSubmit ==
  [][\A id \in (DOMAIN responses') \ (DOMAIN responses) :
       /\ GetControllerParamsContext(storage', id, now') # Null
       /\ Submitted(reqs'[id])]_vars

\* C12: in the step in which the task of a request is handed to the worker pool
\* (no worker can begin it earlier), the response of that request has already
\* been emitted.
C12_NoWorkBeforeResponse ==
  [][\A id \in DOMAIN reqs' :
       (Submitted(reqs'[id]) /\ (id \notin DOMAIN reqs \/ ~Submitted(reqs[id])))
         => id \in DOMAIN responses]_vars

\* a task is in the pool and the response of its request was emitted
C12_Witness ==
  \E id \in DOMAIN reqs :
    /\ reqs[id].pc = "worker"
    /\ id \in DOMAIN responses
    /\ responses[id].optimizationId = id

(***************************************************************************)
(* C13                                                                     *)
(***************************************************************************)
\* the texts of the callbacks field that denote a list of callbacks
ParseableCallbacks == {<<>>, <<" ", "[", "{", "U", "}", "]">>, <<"{", "U", "}", " ">>}

\* the request breaks a rule of the accept
RejectedAtAccept(noFile, value, q) ==
  \/ noFile
  \/ q.width \notin 1..8000
  \/ q.height # Null /\ q.height.px \notin 1..8000
  \/ q.quality \notin 1..100
  \/ q.format \notin {"png", "PNG", "jpeg", "JPEG", "webp", "avif", "gif", "tiff", "svg", "auto"}
  \/ value \notin ParseableCallbacks

\* a 4xx was returned, and no path was minted, no context stored, no task
\* started and no put, callback or event made
OnlyRejects ==
  /\ lastResponse'.status \in 400..499
  /\ UNCHANGED <<storage, reqs, responses, puts, notifs, notifyCall, sseEvents, optimizationEvents, streams, timers,
                 nextUuid,
                 workerCall, jobs, minted, uploads, placeholder, cleanups>>

\* the HTTP surface serves a request: it produces a response or takes a request on
Serves == lastResponse' # lastResponse \/ DOMAIN reqs' # DOMAIN reqs

\* C13: every step that serves a request which breaks a rule of the accept (no
\* file, width or height outside 1..8000, quality outside 1..100, unsupported
\* format, unparseable callbacks) returns a 4xx and changes nothing else: no path
\* is minted, no context stored, no task started and no put made.  (A step that
\* serves a request either only rejects, or is the step of no such request.)
C13_RejectedHasNoEffect ==
  [][Serves =>
       \/ OnlyRejects
       \/ \A value \in CallbackTexts, q \in Queries :
            /\ \A file \in SingleFiles :
                 ~(/\ RejectedAtAccept(file = Null, value, q)
                   /\ PostOptimize(file, value, q.width, q.height, q.quality, q.format))
            /\ \A files \in BatchFiles :
                 ~(/\ RejectedAtAccept(Len(files) = 0, value, q)
                   /\ PostBatchOptimize(files, value, q.width, q.height, q.quality, q.format))]_vars

\* a request has been rejected: the 4xx is the only trace of it
C13_Witness ==
  /\ lastResponse = BadRequest("")
  /\ reqs = EmptyMap
  /\ storage = EmptyMap
  /\ puts = EmptyMap
  /\ nextUuid = 0

(***************************************************************************)
(* C14                                                                     *)
(***************************************************************************)
\* C14: a single-image request whose context was absent when it was looked up,
\* at the start of the arm or at upload time, has ended as a failure: it is not
\* reported as optimized successfully.
C14_MissingContextFails ==
  \A id \in SingleIds :
    /\ (Knows(reqs[id], "contextAtUpload") /\ ~reqs[id].contextAtUpload)
         => /\ reqs[id].pc = "failed"
            /\ ~Knows(reqs[id], "outcome")
    /\ (~Knows(reqs[id], "newFilePath")) => reqs[id].pc = "failed"

(***************************************************************************)
(* C15                                                                     *)
(***************************************************************************)
\* C15: a step that serves a request for which the minted optimizationId is the
\* id of a context that is still stored fails the accept (an error response) and
\* leaves the stored context as it was.
C15_DuplicateIdRejected ==
  [][\A id \in DOMAIN reqs, callbacks \in CallbackLists :
       (/\ GetControllerParamsContext(storage, id, now) # Null
        /\ OptimizeImageWithId(File(0), callbacks, 800, Null, 80, "PNG", id))
         => /\ lastResponse'.status >= 400
            /\ GetControllerParamsContext(storage', id, now')
                 = GetControllerParamsContext(storage, id, now)]_vars

(***************************************************************************)
(* C16                                                                     *)
(***************************************************************************)
\* the path and option fields of a stored context
FrozenFields == {"newFilePath", "newFilePaths", "width", "height", "quality", "format"}
Frozen(context) == [f \in (DOMAIN context) \cap FrozenFields |-> context[f]]

OpenStreams(id) == {s \in DOMAIN streams : streams[s].id = id /\ ~streams[s].completed}

\* C17: in the step that publishes an event for an id, the event is appended to
\* the events of every stream that is subscribed to that id and of no other
\* stream; no other step changes the events of a stream (so each stream holds
\* the events published for its id since it subscribed, once each, in order).
C17_DeliveredToSubscribers ==
  [][/\ \A e \in sseEvents' \ sseEvents :
          \A s \in DOMAIN streams :
            streams'[s].events = IF s \in OpenStreams(e.id)
                                 THEN Append(streams[s].events, e)
                                 ELSE streams[s].events
     /\ sseEvents' = sseEvents =>
          \A s \in DOMAIN streams : streams'[s].events = streams[s].events]_vars

\* C18: a complete or error event published for an id with a broker entry is
\* delivered to the open streams of the id; no stream of the id is completed
\* while the grace of such an event has not elapsed; and when the grace has
\* elapsed (its timer runs) every stream of the id is completed and the id has
\* left the broker.
C18_GraceThenClose ==
  [][/\ \A e \in sseEvents' \ sseEvents :
          (e.type \in {"complete", "error"} /\ e.id \in DOMAIN optimizationEvents)
            => \A s \in OpenStreams(e.id) : streams'[s].events = Append(streams[s].events, e)
     /\ \A n \in DOMAIN timers :
          (timers[n].kind = "grace" /\ timers[n].due > now')
            => \A s \in OpenStreams(timers[n].id) : ~streams'[s].completed
     /\ Len(timers') < Len(timers) =>
          LET timer == timers[NextTimer(timers, now)] IN
          timer.kind = "grace" =>
            /\ \A s \in DOMAIN streams' : streams'[s].id = timer.id => streams'[s].completed
            /\ timer.id \notin DOMAIN optimizationEvents']_vars

(***************************************************************************)
(* C19, C20                                                                *)
(***************************************************************************)
\* the fetches of the call in progress that were made for the callback at index i
FetchesOf(i) == {k \in DOMAIN notifyCall.fetches : notifyCall.fetches[k].index = i}

\* C19: a notify call, whatever its callbacks (undefined, empty, items with
\* unparseable urls, fetches that reject or answer a non-2xx status), ends by
\* returning, with what was thrown inside it caught and logged, and it has
\* returned only when every fetch it made has settled.
C19_NotifyNeverThrows ==
  notifyCall.pc = "returned" =>
    /\ \A k \in DOMAIN notifyCall.fetches : notifyCall.fetches[k].response # "pending"
    /\ notifyCall.thrown =>
         [msg |-> "Error importing node-fetch or processing callbacks"] \in notifyCall.logged

\* a call has returned after one of its fetches was rejected and another was
\* answered with a non-2xx status
C19_Witness ==
  /\ notifyCall.pc = "returned"
  /\ \E k, l \in DOMAIN notifyCall.fetches :
       /\ notifyCall.fetches[k].response = "rejected"
       /\ notifyCall.fetches[l].response = "status"

\* C20: in a notify call over an array, every callback whose url is parseable has
\* exactly one fetch, made with its url, and every other callback has none, in
\* every state of the call: also after fetches of the call were rejected or
\* answered with a non-2xx status.  A call without an array makes no fetch.
C20_OneRequestPerParseableUrl ==
  notifyCall.pc # "idle" =>
    IF notifyCall.callbacks.kind = "array"
    THEN \A i \in DOMAIN notifyCall.callbacks.items :
           LET callback == notifyCall.callbacks.items[i] IN
           IF "url" \in DOMAIN callback /\ CanParse(callback.url)
           THEN /\ Cardinality(FetchesOf(i)) = 1
                /\ \A k \in FetchesOf(i) : notifyCall.fetches[k].request.url = callback.url
           ELSE FetchesOf(i) = {}
    ELSE notifyCall.fetches = <<>>

\* a call over three callbacks: the fetch of one was rejected, the fetch of another
\* answered a non-2xx status, the third has a url that does not parse
C20_Witness ==
  /\ notifyCall.pc # "idle"
  /\ notifyCall.callbacks.kind = "array"
  /\ \E k, l \in DOMAIN notifyCall.fetches :
       /\ notifyCall.fetches[k].response = "rejected"
       /\ notifyCall.fetches[l].response = "status"
  /\ \E i \in DOMAIN notifyCall.callbacks.items :
       /\ ~IsNull(notifyCall.callbacks.items[i])
       /\ ~CanParse(Url(notifyCall.callbacks.items[i]))

(***************************************************************************)
(* C23                                                                     *)
(***************************************************************************)
\* C23: at every instant, for every key, keys() lists the key exactly when get
\* and has report it present at that instant, and size() is the number of the
\* keys that get and has report present.
C23_KeysAgreeWithGet ==
  /\ \A k \in StoreKeys :
       /\ k \in TtlKeys(storage, now) <=> TtlHas(storage, k, now)
       /\ k \in TtlKeys(storage, now) <=> TtlGet(storage, k, now) # Null
  /\ TtlSize(storage, now) = Cardinality({k \in StoreKeys : TtlHas(storage, k, now)})

(***************************************************************************)
(* C29                                                                     *)
(***************************************************************************)
\* C29: a get(k) or has(k) step on an entry whose expiresAt is before the time of
\* the call returns null / false and leaves the store without k, every other
\* entry as it was; on an entry whose expiresAt is not before the time of the
\* call it returns the value / true and leaves the store as it was.
C29_LazyEviction ==
  [][\A k \in (StoreKeys \cap DOMAIN storage) :
       LET past == storage[k].expiresAt < now
           absentAfter == storage' = [x \in (DOMAIN storage) \ {k} |-> storage[x]]
       IN
       /\ Get(k) => IF past THEN ret'.val = Null /\ absentAfter
                    ELSE ret'.val = storage[k].value /\ storage' = storage
       /\ Has(k) => IF past THEN ret'.val = FALSE /\ absentAfter
                    ELSE ret'.val = TRUE /\ storage' = storage]_vars

\* a get has just returned null for a key that was set, left alone and has
\* expired, and the key is gone while another key is still stored
C29_Witness ==
  /\ ret.op = "get" /\ ret.val = Null
  /\ ret.key \in DOMAIN lastSet
  /\ lastSet[ret.key].t + EffectiveTtl(lastSet[ret.key].T) < ret.at
  /\ ret.key \notin DOMAIN storage
  /\ storage # EmptyMap

(***************************************************************************)
(* C30                                                                     *)
(***************************************************************************)
\* C30: a sweep step removes exactly the entries whose expiresAt is before the
\* time of the sweep, returns how many they are, and leaves every other entry
\* with its value and expiry; the sweep runs between any set, get, has, delete,
\* updateTTL and clear calls.
C30_SweepExact ==
  [][CleanupExpiredItems =>
       LET past == {k \in DOMAIN storage : storage[k].expiresAt < now} IN
       /\ DOMAIN storage' = (DOMAIN storage) \ past
       /\ \A k \in DOMAIN storage' : storage'[k] = storage[k]
       /\ ret'.val = Cardinality(past)]_vars

\* a sweep has just removed an entry and left another one, which expires at the
\* time of the sweep or later
C30_Witness ==
  /\ ret.op = "cleanup" /\ ret.val >= 1
  /\ \E k \in DOMAIN storage : storage[k].expiresAt >= ret.at
  /\ \E k \in DOMAIN lastSet : k \notin DOMAIN storage

(***************************************************************************)
(* C26                                                                     *)
(***************************************************************************)
\* the callbacks the handler stored in the step: those of the context written
CallbacksStored == {storage'[key].value.callbacks : key \in (DOMAIN storage') \ (DOMAIN storage)}

\* what a step that serves a request with the callbacks text value ends in: a
\* 4xx, or every list of callbacks handed to the handler is a list of objects
\* with a url, empty for an absent field, of one element for a bare object
PipeOutcome(value) ==
  \/ lastResponse'.status \in 400..499 /\ CallbacksStored = {}
  \/ /\ CallbacksStored # {}
     /\ \A callbacks \in CallbacksStored :
          /\ DOMAIN callbacks = 1..Len(callbacks)
          /\ \A i \in DOMAIN callbacks :
               "null" \notin DOMAIN callbacks[i] /\ "url" \in DOMAIN callbacks[i]
          /\ value = <<>> => callbacks = <<>>
          /\ StartsWith(Trim(value), "{") => Len(callbacks) = 1

\* C26: every step that serves a request, whatever the text of its callbacks
\* field, either rejects it with a 4xx or hands the handler a list of callbacks
\* in which every element is an object with a url: the empty list for an absent
\* field, a list of one element for a bare JSON object.
C26_PipeReturnsCallbacks ==
  [][Serves =>
       \A value \in CallbackTexts, q \in Queries :
         /\ \A file \in SingleFiles :
              PostOptimize(file, value, q.width, q.height, q.quality, q.format)
                => PipeOutcome(value)
         /\ \A files \in BatchFiles :
              PostBatchOptimize(files, value, q.width, q.height, q.quality, q.format)
                => PipeOutcome(value)]_vars

\* a request has been accepted with one callback, and its context is stored
C26_Witness ==
  \E key \in DOMAIN storage :
    /\ Len(storage[key].value.callbacks) = 1
    /\ "url" \in DOMAIN storage[key].value.callbacks[1]

(***************************************************************************)
(* C21                                                                     *)
(***************************************************************************)
\* the task of the call failed while executing: piscina.run rejected, or the
\* final encoding of the worker threw
TaskFailed ==
  \/ workerCall.run.kind = "rejected"
  \/ workerCall.encodings[FinalFormat(workerCall.task, workerCall.encodings)] = Null

\* C21: a call of the worker pool's optimizeImage that has settled has resolved,
\* never rejected; when its task failed while executing, it resolved with
\* success=false, an empty optimizedBuffer, optimizedSize 0 and the originalName
\* and originalSize of its own task.
C21_PoolNeverThrows ==
  workerCall.pc = "settled" =>
    /\ workerCall.outcome.kind = "fulfilled"
    /\ TaskFailed =>
         LET result == workerCall.outcome.value IN
         /\ result.success = FALSE
         /\ result.optimizedBuffer.length = 0
         /\ result.optimizedSize = 0
         /\ result.originalName = workerCall.task.originalName
         /\ result.originalSize = workerCall.task.imageBuffer.length

\* the worker thread died under the second file's task, and the call resolved
C21_Witness ==
  /\ workerCall.pc = "settled"
  /\ workerCall.run.kind = "rejected"
  /\ workerCall.task.originalName = File(1).originalname
  /\ workerCall.outcome.kind = "fulfilled"
  /\ ~workerCall.outcome.value.success

(***************************************************************************)
(* C27                                                                     *)
(***************************************************************************)
\* the candidates of format auto that encode
Encoded(encodings) == {i \in DOMAIN AutoFormats : encodings[AutoFormats[i]] # Null}

\* the smallest of them, the earlier one on a tie
Smallest(encodings) ==
  CHOOSE i \in Encoded(encodings) :
    \A j \in Encoded(encodings) :
      \/ encodings[AutoFormats[i]].length < encodings[AutoFormats[j]].length
      \/ /\ encodings[AutoFormats[i]].length = encodings[AutoFormats[j]].length
         /\ i <= j

\* C27: for format auto, the result the worker returns is the encoding of the
\* smallest candidate that encoded among jpeg, webp, avif and png, the earlier
\* one on a tie, whatever candidates failed; it is a failure when all failed.
C27_AutoPicksSmallest ==
  (/\ workerCall.pc = "settled"
   /\ workerCall.run.kind = "fulfilled"
   /\ workerCall.task.options.format = "auto") =>
    LET encodings == workerCall.encodings
        result == workerCall.run.value
    IN IF Encoded(encodings) = {} THEN ~result.success
       ELSE /\ result.success
            /\ result.optimizedBuffer =
                 [format |-> AutoFormats[Smallest(encodings)],
                  length |-> encodings[AutoFormats[Smallest(encodings)]].length]

(***************************************************************************)
(* C22                                                                     *)
(***************************************************************************)
Digits == {"0", "1", "2", "3", "4", "5", "6", "7", "8", "9"}

\* the first position from i on where text s has the character c, or 0
RECURSIVE IndexOf(_, _, _)
IndexOf(s, c, i) ==
  IF i > Len(s) THEN 0
  ELSE IF SubSeq(s, i, i) = c THEN i
  ELSE IndexOf(s, c, i + 1)

\* text s is not empty and made of the characters of set cs
MadeOf(s, cs) == Len(s) > 0 /\ \A i \in 1..Len(s) : SubSeq(s, i, i) \in cs

\* a numeric UTC offset: a sign, then digits (and the colon of the minutes)
IsNumericOffset(s) ==
  /\ Len(s) >= 2
  /\ SubSeq(s, 1, 1) \in {"+", "-"}
  /\ MadeOf(SubSeq(s, 2, Len(s)), Digits \cup {":"})

\* path is optimized/<date>_<numeric offset>_<uuid>.<format>
WellFormedPath(path) ==
  LET start == Len("optimized/") + 1
      a == IndexOf(path, "_", start)
      b == IndexOf(path, "_", a + 1)
      c == IndexOf(path, ".", b + 1)
  IN /\ SubSeq(path, 1, start - 1) = "optimized/"
     /\ a > 0 /\ b > 0 /\ c > 0 /\ c < Len(path)
     /\ MadeOf(SubSeq(path, start, a - 1), Digits \cup {"-"})
     /\ IsNumericOffset(SubSeq(path, a + 1, b - 1))
     /\ MadeOf(SubSeq(path, b + 1, c - 1), Digits \cup {"u", "-"})

PISCINA_THREADS == 1

\* the tasks the arms of requests ids have submitted to the pool and that have
\* not settled
RECURSIVE PoolTasks(_, _)
PoolTasks(rs, ids) ==
  IF ids = {} THEN 0
  ELSE LET id == CHOOSE x \in ids : TRUE
           n == IF rs[id].pc # "worker" THEN 0
                ELSE IF rs[id].kind = "batch" THEN Len(rs[id].files) ELSE 1
       IN n + PoolTasks(rs, ids \ {id})

\* piscina.queueSize: the submitted tasks no thread has taken
QueueSize ==
  LET tasks == PoolTasks(reqs, DOMAIN reqs) IN
  IF tasks > PISCINA_THREADS THEN tasks - PISCINA_THREADS ELSE 0

\* C25: the number of tasks waiting in the pool's queue is bounded by a mark of
\* the service: it stays below the number of tasks that wait when every file
\* the clients were allowed to send is submitted at once, because an accept
\* made beyond the mark is answered with a 503 and queues nothing.
C25_QueueBounded == QueueSize < MaxBatch - PISCINA_THREADS

(***************************************************************************)
(* C28                                                                     *)
(***************************************************************************)
\* a terminal SSE event has been published for request id
TerminalPublished(id) ==
  \E type \in TerminalTypes : [id |-> id, type |-> type] \in sseEvents

\* C28: for every request, a blob-store put has started only if the worker
\* returned success for the file it stores, a terminal SSE event has been
\* published only if the puts of the request have completed, and the callback
\* fan-out has started only if a terminal SSE event has been published.
C28_PipelineOrder ==
  /\ \A id \in SingleIds : Len(PutsOf(id)) > 0 => WorkerSucceeded(reqs[id])
  /\ \A id \in BatchIds :
       \A i \in 1..Len(reqs[id].files) :
         Len(PutsOf(IndexId(id, i - 1))) > 0 =>
           Knows(reqs[id], "workerSuccess") /\ reqs[id].workerSuccess[i]
  /\ \A id \in DOMAIN reqs : TerminalPublished(id) => Knows(reqs[id], "stored")
  /\ \A id \in DOMAIN reqs : Len(NotifsOf(id)) > 0 => TerminalPublished(id)

(***************************************************************************)
(* C24                                                                     *)
(***************************************************************************)
\* the temp upload files the context of request rq refers to
TempFiles(rq) ==
  IF rq.kind = "batch" THEN {rq.files[i].path : i \in DOMAIN rq.files}
  ELSE {rq.file.path}

\* C24: after a step of a periodic cleanup (the sweep of the expired contexts or
\* the hourly cleanup job), every accepted request whose context is gone has
\* none of its temp upload files left on disk.
C24_CleanupUnlinks ==
  [][(SweepJob \/ HandleCleanupExpired) =>
       \A id \in DOMAIN reqs :
         GenerateKey(CONTROLLER_PARAMS, id) \notin DOMAIN storage' =>
           TempFiles(reqs[id]) \cap uploads' = {}]_vars

(***************************************************************************)
(* C31                                                                     *)
(***************************************************************************)
\* the prior unexpired context of a type and an id, or the empty record
PriorContext(contextType, id) ==
  LET key == GenerateKey(contextType, id) IN
  IF key \in DOMAIN storage /\ storage[key].expiresAt >= now
  THEN storage[key].value ELSE EmptyMap

\* record r gives a clientId (a non-empty one)
GivesClientId(r) == "clientId" \in DOMAIN r /\ r.clientId # ""

Stamps == {"clientId", "createdAt", "updatedAt"}

\* C31: a step set*(id, fields) stores, under the key of its type and id, the
\* prior unexpired context of that type and id (if any) overlaid with fields,
\* with clientId the one fields gives, else the one the prior context gives,
\* else id (an empty clientId gives none); createdAt the prior context's when
\* there was one, else the current time; and updatedAt the current time.
C31_MergeOnWrite ==
  [][\A contextType \in {CONTROLLER_PARAMS, IMAGE_OPTIMIZATION}, id \in ContextIds,
        fields \in ContextFields :
       SetContext(contextType, id, fields) =>
         LET prior == PriorContext(contextType, id)
             stored == storage'[GenerateKey(contextType, id)].value
         IN /\ DOMAIN stored = (DOMAIN prior) \cup (DOMAIN fields) \cup Stamps
            /\ \A f \in (DOMAIN stored) \ Stamps :
                 stored[f] = IF f \in DOMAIN fields THEN fields[f] ELSE prior[f]
            /\ stored.clientId = IF GivesClientId(fields) THEN fields.clientId
                                 ELSE IF GivesClientId(prior) THEN prior.clientId
                                 ELSE id
            /\ stored.createdAt = IF prior # EmptyMap THEN prior.createdAt ELSE now
            /\ stored.updatedAt = now]_vars

\* an image-optimization context written twice: the second write, later and
\* without a clientId, kept the width, the clientId and the createdAt of the first
C31_Witness ==
  LET key == GenerateKey(IMAGE_OPTIMIZATION, "id1") IN
  /\ key \in DOMAIN storage
  /\ storage[key].value.createdAt < storage[key].value.updatedAt
  /\ "width" \in DOMAIN storage[key].value
  /\ storage[key].value.clientId = "c1"
  /\ GenerateKey(CONTROLLER_PARAMS, "id1") \in DOMAIN storage

(***************************************************************************)
(* C32                                                                     *)
(***************************************************************************)
\* the step is an activity on the broker entry of id: a subscription to id, or
\* an event published for id while id has an entry
Activity(id) ==
  \/ \E s \in (DOMAIN streams') \ (DOMAIN streams) : streams'[s].id = id
  \/ /\ id \in DOMAIN optimizationEvents
     /\ \E e \in sseEvents' \ sseEvents : e.id = id

\* C32: the entry of an id expires after SUBJECT_LIFETIME without activity, not
\* SUBJECT_LIFETIME after its creation: after a subscription to the id or an
\* event published to its entry, no expiry timer of the id is due before
\* SUBJECT_LIFETIME more has passed.
C32_ExpiryFollowsActivity ==
  [][\A id \in BrokerIds :
       Activity(id) =>
         \A n \in DOMAIN timers' :
           (timers'[n].kind = "lifetime" /\ timers'[n].id = id)
             => timers'[n].due >= now + SUBJECT_LIFETIME]_vars

(***************************************************************************)
(* C33                                                                     *)
(***************************************************************************)
\* C33: a task that was executing when the shutdown of the pool began is not
\* cancelled: its call delivers the result the worker computes for it.
C33_ShutdownDrains ==
  (/\ workerCall.pc = "settled"
   /\ workerCall.run = [kind |-> "rejected", reason |-> "Terminating worker thread"])
    => workerCall.outcome =
         [kind |-> "fulfilled",
          value |-> OptimizeImageWorker(workerCall.task, workerCall.encodings)]

(***************************************************************************)
(* C34                                                                     *)
(***************************************************************************)
\* a createBlurPlaceholder call with mobileOptimized true and no height has computed its target
MobileCall ==
  /\ placeholder.pc = "resized"
  /\ OptionMobile(placeholder.options)
  /\ NoHeight(placeholder.options)

\* C34: createBlurPlaceholder with mobileOptimized = true and no height resizes to the
\* target width max(20, min(width, 40)): 20 for a requested width below 20, 40 for one
\* above 40, the requested width otherwise, so a width in [20, 40] for every request.
C34_MobileWidthClamped ==
  MobileCall =>
    LET width == OptionWidth(placeholder.options)
        finalWidth == placeholder.target.finalWidth
    IN  /\ finalWidth \in 20..40
        /\ width < 20 => finalWidth = 20
        /\ width > 40 => finalWidth = 40
        /\ width \in 20..40 => finalWidth = width

\* a mobile call that asked for 1 pixel and was given 20
C34_Witness ==
  /\ MobileCall
  /\ "width" \in DOMAIN placeholder.options
  /\ placeholder.options.width = 1
  /\ placeholder.target.finalWidth = 20

(***************************************************************************)
(* C35                                                                     *)
(***************************************************************************)
\* the streams of id that the step completes
CompletedByStep(id) ==
  {s \in DOMAIN streams : streams[s].id = id /\ ~streams[s].completed /\ streams'[s].completed}

\* C35: a timer armed for one entry of an id never touches a later entry of the
\* id: a step that takes the entry of an id out of the broker leaves no stream
\* of that entry open; and an expiry timer that completes streams is the one
\* armed with their entry, which is the last expiry timer armed for the id
\* (the entry in the broker is the last one created), so none is left pending.
C35_TimersKeepToTheirEntry ==
  [][\A id \in DOMAIN optimizationEvents :
       /\ id \notin DOMAIN optimizationEvents' =>
            \A s \in Observers(streams, optimizationEvents[id]) : streams'[s].completed
       /\ (/\ Len(timers') < Len(timers)
           /\ timers[NextTimer(timers, now)].kind = "lifetime"
           /\ CompletedByStep(id) # {})
            => \A n \in DOMAIN timers' :
                 ~(timers'[n].kind = "lifetime" /\ timers'[n].id = id)]_vars

(***************************************************************************)
(* C36                                                                     *)
(***************************************************************************)
\* C36: an event published for an id that has no broker entry is discarded: the
\* step creates no entry, reaches no stream and arms no timer; and it is never
\* delivered later: a stream starts without events and the events of a stream
\* grow only by an event published in that very step, so a stream that
\* subscribes after an event (a terminal one included) never holds it.
C36_UnheardEventsAreDropped ==
  [][/\ \A e \in sseEvents' \ sseEvents :
          e.id \notin DOMAIN optimizationEvents
            => /\ optimizationEvents' = optimizationEvents
               /\ streams' = streams
               /\ timers' = timers
     /\ \A s \in DOMAIN streams' :
          LET before == IF s \in DOMAIN streams THEN streams[s].events ELSE <<>>
          IN  \/ streams'[s].events = before
              \/ \E e \in sseEvents' \ sseEvents : streams'[s].events = Append(before, e)]_vars

\* a terminal event was published while the id had no entry; a stream that
\* subscribed afterwards is open and has no event, and no stream holds the event
C36_Witness ==
  \E e \in sseEvents :
    /\ e.type \in {"complete", "error"}
    /\ \A s \in DOMAIN streams : \A k \in DOMAIN streams[s].events : streams[s].events[k] # e
    /\ \E s \in DOMAIN streams :
         /\ streams[s].id = e.id
         /\ ~streams[s].completed
         /\ streams[s].events = <<>>

(***************************************************************************)
(* C37                                                                     *)
(***************************************************************************)
\* the store as a sweep at this moment would leave it
Swept == TtlSweep(storage, now)

\* no entry expires later than this
LastExpiry == MaxTime + Max(MaxTtlArg, DEFAULT_TTL)

\* two stores that differ at most in entries a sweep at time t removes
SameButSwept(a, b, t) == TtlSweep(a, t) = TtlSweep(b, t)

C38_FailedUploadLeavesNoTrace ==
  [][\A ttl \in 1..MaxTtlArg :
       UploadImageFails(JobFile, ttl) =>
         /\ lastResponse'.status \in 400..499
         /\ JobFile.path \notin uploads'
         /\ DOMAIN jobs' = DOMAIN jobs]_vars

(***************************************************************************)
(* C39                                                                     *)
(***************************************************************************)
\* C39: a cleanup removes no job but expired ones, and the count it returns is
\* the number of job records the call itself removed, also when the hourly and
\* the manual cleanup run concurrently or an unlink fails: a job taken out of
\* the store had expired, and the deletedCount of a cleanup that returns is the
\* number of records its own deletes removed.
C39_CleanupCountExact ==
  [][\A c \in Cleaners :
       /\ (DOMAIN jobs) \ (DOMAIN jobs') # {} =>
            \A jobId \in (DOMAIN jobs) \ (DOMAIN jobs') : jobs[jobId].expiresAt < now
       /\ (cleanups'[c].pc = "returned" /\ cleanups[c].pc # "returned") =>
            cleanups'[c].deletedCount = cleanups'[c].removed]_vars

====
